---- MODULE Spec2Model ----
(***************************************************************************)
(* Granular access control of a document (GranularAccess.ts): the rule     *)
(* store rebuilt by update(), the permission evaluator (PermissionInfo),   *)
(* the pruning of outgoing DocActions (pruneOutgoingDocAction, _pruneRows, *)
(* _pruneColumns, _filterRowsAndCells), the metadata censor                *)
(* (filterMetaTables) and the lazily built row snapshots of a broadcast.   *)
(***************************************************************************)
EXTENDS Integers, Sequences, FiniteSets, TLC

(***************************************************************************)
(* Bounds of the model.                                                    *)
(***************************************************************************)
\* Row ids of the data table are 1..MaxRowId.
MaxRowId == 2
\* Longest bundle of DocActions applied and broadcast at once.
MaxBundle == 2
\* Bundles applied and broadcast in one behaviour.
MaxBroadcasts == 1
\* Longest list of actions in an ApplyUndoActions / ApplyDocActions wrapper.
MaxWrapped == 2
\* The bundles broadcast one after the other where the row snapshots of one
\* could reach the next.
MaxLifecycle == 2

(***************************************************************************)
(* Generic helpers on sequences and maps.  A JavaScript Map or object is a *)
(* TLA+ function whose DOMAIN is the set of its keys.                      *)
(***************************************************************************)
Range(s) == {s[i] : i \in DOMAIN s}

RECURSIVE SeqOfSet(_)
\* The elements of a set of integers in increasing order.
SeqOfSet(S) ==
  IF S = {} THEN <<>>
  ELSE LET m == CHOOSE x \in S : \A y \in S : x <= y
       IN <<m>> \o SeqOfSet(S \ {m})

FilterSeq(s, Keep(_)) == SelectSeq(s, Keep)

RECURSIVE Flatten(_)
Flatten(ss) == IF ss = <<>> THEN <<>> ELSE Head(ss) \o Flatten(Tail(ss))

MapGet(m, k, dflt) == IF k \in DOMAIN m THEN m[k] ELSE dflt
MapSet(m, k, v) == [x \in DOMAIN m \cup {k} |-> IF x = k THEN v ELSE m[x]]
EmptyMap == [x \in {} |-> 0]

(***************************************************************************)
(* Permission lattice (app/common/ACLPermissions).                         *)
(***************************************************************************)
Bits == {"read", "create", "update", "delete", "schemaEdit"}

PartialValues == {"unset", "allow", "deny", "allowSome", "denySome", "mixed"}

\* emptyPermissionSet(): every bit unset.
emptyPermissionSet == [b \in Bits |-> "unset"]

\* parsePermissions(text) for the texts the engine itself uses, and for the
\* texts '+R' / '-R' of the rules of the model.
parsePermissions(text) ==
  CASE text = "all"  -> [b \in Bits |-> "allow"]
    [] text = "none" -> [b \in Bits |-> "deny"]
    [] text = "+R"   -> [b \in Bits |-> IF b = "read" THEN "allow" ELSE "unset"]
    [] text = "-R"   -> [b \in Bits |-> IF b = "read" THEN "deny" ELSE "unset"]
    [] text = "+U"   -> [b \in Bits |-> IF b = "update" THEN "allow" ELSE "unset"]
    [] OTHER         -> emptyPermissionSet

\* A merge of one bit in which unset, as second operand, is taken for a verdict.
combinePartialPermission_unsetCounts(a, b) ==
  IF a = "unset" THEN b
  ELSE IF a = "allowSome" THEN (IF b \in {"allowSome", "allow"} THEN b ELSE "mixed")
  ELSE IF a = "denySome" THEN (IF b \in {"denySome", "deny"} THEN b ELSE "mixed")
  ELSE a

\* One bit of merge(a, b), a taking precedence.  unset is the identity; a
\* final or mixed first operand is not affected by the second; an uncertain
\* first operand (allowSome / denySome) is kept or made certain by a second
\* operand of the same polarity, and becomes mixed otherwise.
combinePartialPermission(a, b) ==
  IF a = "unset" THEN b
  ELSE IF b = "unset" THEN a
  ELSE IF a = "allowSome" THEN (IF b \in {"allowSome", "allow"} THEN b ELSE "mixed")
  ELSE IF a = "denySome" THEN (IF b \in {"denySome", "deny"} THEN b ELSE "mixed")
  ELSE a

\* mergePermissions(psets, combine): bit by bit over a list of sets.
mergePermissions(psets, combine(_)) ==
  [b \in Bits |-> combine([i \in DOMAIN psets |-> psets[i][b]])]

mergePartialPermissions(a, b) ==
  [bit \in Bits |-> combinePartialPermission(a[bit], b[bit])]

\* makePartialPermissions(p): allow/deny weakened to allowSome/denySome.
makePartialPermissions(p) ==
  [b \in Bits |-> CASE p[b] = "allow" -> "allowSome"
                    [] p[b] = "deny"  -> "denySome"
                    [] OTHER          -> p[b]]

\* toMixed(p): leftover allowSome -> allow, denySome -> deny, mixed stays;
\* a bit nothing decided is denied.
toMixed(p) ==
  [b \in Bits |-> CASE p[b] \in {"allow", "allowSome"} -> "allow"
                    [] p[b] = "mixed"                  -> "mixed"
                    [] OTHER                           -> "deny"]

(***************************************************************************)
(* Table data.  A TableDataAction ['TableData', tableId, rowIds, colValues] *)
(* is columnar: rowIds is a list and colValues maps each column id to the  *)
(* list of its values, aligned with rowIds.                                *)
(***************************************************************************)
Null == "<null>"
CENSORED == "CENSORED"

\* RecordView: a row-like cursor (data, index) over a TableDataAction.
RecordView(data, index) == [data |-> data, index |-> index]
\* EmptyRecordView: every column reads as null.
EmptyRecordView == [empty |-> TRUE]
\* The `rec` of an AclMatchInput that carries no record.
NoRec == [norec |-> TRUE]

IsRecordView(v) == DOMAIN v = {"data", "index"}

\* RecordView.get / EmptyRecordView.get.  The result is a pair <<ok, value>>:
\* a column that the data does not have makes the read throw (ok = FALSE),
\* and an index that the data does not have reads as undefined (Null).
ViewGet(view, colId) ==
  IF view = EmptyRecordView THEN <<TRUE, Null>>
  ELSE IF colId \notin DOMAIN view.data.colValues \cup {"id"} THEN <<FALSE, Null>>
  ELSE IF view.index \notin DOMAIN view.data.rowIds THEN <<TRUE, Null>>
  ELSE IF colId = "id" THEN <<TRUE, view.data.rowIds[view.index]>>
  ELSE <<TRUE, view.data.colValues[colId][view.index]>>

(***************************************************************************)
(* Rules.  A rule is (aclFormula, permissions); its match predicate is     *)
(* what the formula compiler makes of aclFormula.  matchFunc gives the     *)
(* outcome of calling it: "true", "false", "NEED_ROW_DATA" (the formula    *)
(* reads rec and the input has none) or "error" (any other exception).     *)
(***************************************************************************)
F_EditorsOwners == "user.Role in ['editors', 'owners']"
F_Viewers       == "user.Role in ['viewers']"
F_RecOwnerIsUser  == "rec.owner == user.Email"
F_RecOwnerNotUser == "rec.owner != user.Email"
F_True          == "True"
F_IsViewer      == "user.Access == 'viewers'"
F_IsOwner       == "user.Access == 'owners'"
F_TeamVip       == "user.Team.level == 'vip'"
F_Boom          == "1/0 == 1"

RecFormulas == {F_RecOwnerIsUser, F_RecOwnerNotUser}

Bool(b) == IF b THEN "true" ELSE "false"

matchFunc(aclFormula, input) ==
  CASE aclFormula = F_EditorsOwners -> Bool(input.user.Access \in {"editors", "owners"})
    [] aclFormula = F_Viewers       -> Bool(input.user.Access = "viewers")
    [] aclFormula = F_IsViewer      -> Bool(input.user.Access = "viewers")
    [] aclFormula = F_IsOwner       -> Bool(input.user.Access = "owners")
    [] aclFormula = F_True          -> "true"
    [] aclFormula = F_Boom          -> "error"
    [] aclFormula = F_TeamVip ->
         IF "Team" \notin DOMAIN input.user THEN "error"
         ELSE LET got == ViewGet(input.user.Team, "level")
              IN IF got[1] THEN Bool(got[2] = "vip") ELSE "error"
    [] aclFormula \in RecFormulas ->
         IF input.rec = NoRec THEN "NEED_ROW_DATA"
         ELSE LET got == ViewGet(input.rec, "owner")
              IN IF ~got[1] THEN "error"
                 ELSE IF aclFormula = F_RecOwnerIsUser
                      THEN Bool(got[2] = input.user.Email)
                      ELSE Bool(got[2] # input.user.Email)
    [] OTHER -> "error"

Rule(f, p) == [aclFormula |-> f, permissions |-> parsePermissions(p)]

\* colIds of a rule set: '*' or a list of column ids.
Star == <<"*">>

RuleSet(t, c, body, dflt) ==
  [tableId |-> t, colIds |-> c, body |-> body, defaultPermissions |-> dflt]

\* The hard-coded default RuleSet that is added to any user-created default rule.
DEFAULT_RULE_SET ==
  RuleSet("*", Star,
          << Rule(F_EditorsOwners, "all"), Rule(F_Viewers, "+R") >>,
          parsePermissions("none"))

RECURSIVE evaluateBody_abort(_, _, _)
\* A loop of evaluateRule that a formula that fails ends.
evaluateBody_abort(body, input, pset) ==
  IF body = <<>> THEN pset
  ELSE LET rule == Head(body)
           m == matchFunc(rule.aclFormula, input)
           next == CASE m = "true" -> mergePartialPermissions(pset, rule.permissions)
                     [] m = "NEED_ROW_DATA" ->
                          mergePartialPermissions(pset, makePartialPermissions(rule.permissions))
                     [] OTHER -> pset
       IN IF m = "error" THEN pset ELSE evaluateBody_abort(Tail(body), input, next)

RECURSIVE evaluateBody(_, _, _)
\* The loop of evaluateRule over the rules of a body, pset the accumulator.
evaluateBody(body, input, pset) ==
  IF body = <<>> THEN pset
  ELSE LET rule == Head(body)
           m == matchFunc(rule.aclFormula, input)
           next == CASE m = "true" -> mergePartialPermissions(pset, rule.permissions)
                     [] m = "NEED_ROW_DATA" ->
                          mergePartialPermissions(pset, makePartialPermissions(rule.permissions))
                     [] OTHER -> pset
       IN evaluateBody(Tail(body), input, next)

\* evaluateRule(ruleSet, input): the body in order, then the default permissions.
evaluateRule(ruleSet, input) ==
  mergePartialPermissions(evaluateBody(ruleSet.body, input, emptyPermissionSet),
                          ruleSet.defaultPermissions)

(***************************************************************************)
(* PermissionInfo: the evaluator for one input (user, optional record)     *)
(* against the rule store st it holds a reference to.  Its memo            *)
(* _ruleResults maps a RuleSet to the MixedPermissionSet computed for it;  *)
(* a RuleSet is immutable and the input of a PermissionInfo is fixed when  *)
(* it is made, so what the memo returns for a rule set is the value        *)
(* _processRule computes for it.                                           *)
(***************************************************************************)
getColumnRuleSets(st, tableId) == MapGet(st.columnRuleSets, tableId, <<>>)

\* _getDocDefaultAccess: permissions for "*:*".
GetDocDefaultAccess(st, input) == toMixed(evaluateRule(st.defaultRuleSet, input))

\* _getTableDefaultAccess: permissions for "tableId:*", defaulting to "*:*".
GetTableDefaultAccess(st, input, tableId) ==
  IF tableId \in DOMAIN st.tableRuleSets
  THEN toMixed(mergePartialPermissions(evaluateRule(st.tableRuleSets[tableId], input),
                                       GetDocDefaultAccess(st, input)))
  ELSE GetDocDefaultAccess(st, input)

\* _processColumnRule: a column rule set, falling back to its table's default.
ProcessColumnRule(st, input, ruleSet) ==
  toMixed(mergePartialPermissions(evaluateRule(ruleSet, input),
                                  GetTableDefaultAccess(st, input, ruleSet.tableId)))

\* getColumnAccess: "tableId:colId", defaulting to "tableId:*" and "*:*".
getColumnAccess(st, input, tableId, colId) ==
  IF <<tableId, colId>> \in DOMAIN st.tableColumnMap
  THEN ProcessColumnRule(st, input, st.tableColumnMap[<<tableId, colId>>])
  ELSE GetTableDefaultAccess(st, input, tableId)

TableBitFold(bits) ==
  IF \A i \in DOMAIN bits : bits[i] = "allow" THEN "allow"
  ELSE IF \A i \in DOMAIN bits : bits[i] = "deny" THEN "deny"
  ELSE IF \A i \in DOMAIN bits : bits[i] \in {"allow", "deny"} THEN "mixedColumns"
  ELSE "mixed"

\* getTableAccess: all column rule sets of the table plus the table default.
getTableAccess(st, input, tableId) ==
  LET crs == getColumnRuleSets(st, tableId)
      columnAccess == [i \in 1..Len(crs) |-> ProcessColumnRule(st, input, crs[i])]
                        \o << GetTableDefaultAccess(st, input, tableId) >>
  IN mergePermissions(columnAccess, TableBitFold)

\* A fold of getFullAccess that lets one allowed table speak for all.
FullBitFold_someAllow(bits) ==
  IF \E i \in DOMAIN bits : bits[i] = "allow" THEN "allow"
  ELSE IF \A i \in DOMAIN bits : bits[i] = "deny" THEN "deny"
  ELSE "mixed"

\* The fold of getFullAccess over the tables' verdicts for a bit.
FullBitFold(bits) ==
  IF \A i \in DOMAIN bits : bits[i] = "allow" THEN "allow"
  ELSE IF \A i \in DOMAIN bits : bits[i] = "deny" THEN "deny"
  ELSE "mixed"

\* getFullAccess: every table mentioned in rules plus the document default.
getFullAccess(st, input) ==
  LET tableAccess == [i \in 1..Len(st.tableIds) |-> getTableAccess(st, input, st.tableIds[i])]
                       \o << GetDocDefaultAccess(st, input) >>
  IN mergePermissions(tableAccess, FullBitFold)

(***************************************************************************)
(* State.                                                                  *)
(***************************************************************************)
VARIABLES
  aclRules,              \* what readAclRules reads from the document: rule sets and user attributes
  db,                    \* the authoritative store: the rows of the data table
  haveRules,             \* GranularAccess._haveRules
  columnRuleSets,        \* _columnRuleSets: tableId -> list of column RuleSets
  tableColumnMap,        \* _tableColumnMap: <<tableId, colId>> -> RuleSet
  tableRuleSets,         \* _tableRuleSets: tableId -> the table's default RuleSet
  defaultRuleSet,        \* _defaultRuleSet
  tableIds,              \* _tableIds
  userAttributeRules,    \* _userAttributeRules, in insertion order
  characteristicTables,  \* _characteristicTables: name -> CharacteristicTable
  permissionInfoMap,     \* _permissionInfoMap: session -> PermissionInfo
  rowSnapshots,          \* _rowSnapshots: null or the AsyncCreate cell
  updating,              \* the update() call in flight, if any
  bundle,                \* the action bundle applied to the store and being broadcast, if any
  calls,                 \* the filterOutgoingDocActions calls in flight, by session
  last                   \* the call that returned last: its inputs and its result

ruleVars == <<haveRules, columnRuleSets, tableColumnMap, tableRuleSets, defaultRuleSet,
              tableIds, userAttributeRules>>
storeVars == <<haveRules, columnRuleSets, tableColumnMap, tableRuleSets, defaultRuleSet,
               tableIds, userAttributeRules, characteristicTables, permissionInfoMap>>
vars == <<aclRules, db, haveRules, columnRuleSets, tableColumnMap, tableRuleSets,
          defaultRuleSet, tableIds, userAttributeRules, characteristicTables,
          permissionInfoMap, rowSnapshots, updating, bundle, calls, last>>

\* The rule store as the evaluator reads it through its reference to GranularAccess.
Store ==
  [haveRules |-> haveRules, columnRuleSets |-> columnRuleSets,
   tableColumnMap |-> tableColumnMap, tableRuleSets |-> tableRuleSets,
   defaultRuleSet |-> defaultRuleSet, tableIds |-> tableIds,
   userAttributeRules |-> userAttributeRules,
   characteristicTables |-> characteristicTables]

\* The fields of a GranularAccess as its constructor leaves them.
NewStore ==
  [haveRules |-> FALSE, columnRuleSets |-> EmptyMap, tableColumnMap |-> EmptyMap,
   tableRuleSets |-> EmptyMap, defaultRuleSet |-> DEFAULT_RULE_SET, tableIds |-> <<>>,
   userAttributeRules |-> <<>>, characteristicTables |-> EmptyMap]

(***************************************************************************)
(* Sessions (getDocSessionAccess, getDocSessionUser).                      *)
(***************************************************************************)
NoUser == [nouser |-> TRUE]
Session(access, id, email) ==
  [access |-> access, user |-> [id |-> id, email |-> email, name |-> email]]

S_Owner  == Session("owners", 1, "alice")
S_Editor == Session("editors", 2, "bob")
S_Viewer == Session("viewers", 3, "alice")
S_None   == [access |-> "none", user |-> NoUser]

Sessions == {S_Owner, S_Editor, S_Viewer, S_None}

(***************************************************************************)
(* The tables of the document.                                             *)
(***************************************************************************)
DataTable == "T"       \* the table the rules of the model are about
PlainTable == "U"      \* a table no rule mentions
PeopleTable == "People"  \* the source table of the user attribute

DataCols == {"owner", "sec"}
Owners == {"alice", "bob"}

TableData(tableId, rowIds, colValues) ==
  [name |-> "TableData", tableId |-> tableId, rowIds |-> rowIds, colValues |-> colValues]

\* The source table of user attributes, as stored.
PeopleData ==
  TableData(PeopleTable, <<1, 2>>,
            [email |-> <<"Bob", "alice">>, level |-> <<"vip", "std">>])

\* String.toLowerCase on the strings of the model.
Lower(str) == IF str = "Bob" THEN "bob" ELSE str

\* _normalizeValue: a record stands for its id; then JSON.stringify and lower
\* case.  isObject is the code's test `typeof value === 'object'`: a TLC
\* value carries no type tag, so the caller says which kind it passes.
NormalizeValue(value, isObject) ==
  IF isObject THEN ToString(ViewGet(value, "id")[2])
  ELSE IF value = Null THEN "null"
  ELSE "\"" \o Lower(value) \o "\""

(***************************************************************************)
(* update(): rebuild the rule store from the rule metadata.                *)
(***************************************************************************)
UserAttributeRule(name, tableId, lookupColId, charId) ==
  [name |-> name, tableId |-> tableId, lookupColId |-> lookupColId, charId |-> charId]

RECURSIVE SetAttr(_, _)
\* Map.set on the insertion-ordered map of user attribute rules: a name that
\* is already a key keeps its place and takes the new rule.
SetAttr(rules, r) ==
  IF rules = <<>> THEN <<r>>
  ELSE IF Head(rules).name = r.name THEN <<r>> \o Tail(rules)
  ELSE <<Head(rules)>> \o SetAttr(Tail(rules), r)

RECURSIVE BuildUserAttributeMap(_, _)
BuildUserAttributeMap(userAttributes, acc) ==
  IF userAttributes = <<>> THEN acc
  ELSE BuildUserAttributeMap(Tail(userAttributes), SetAttr(acc, Head(userAttributes)))

RECURSIVE AddColIds(_, _, _, _)
AddColIds(tableColMap, ruleSet, colIds, i) ==
  IF i > Len(colIds) THEN tableColMap
  ELSE AddColIds(MapSet(tableColMap, <<ruleSet.tableId, colIds[i]>>, ruleSet), ruleSet, colIds, i + 1)

\* An iteration that puts the built-in rules before the rules of a '*:*'
\* rule set.
AddRuleSet_builtInFirst(acc, ruleSet) ==
  IF ruleSet.tableId = "*" THEN
    IF ruleSet.colIds = Star
    THEN [acc EXCEPT !.defaultRuleSet =
            [ruleSet EXCEPT !.body = DEFAULT_RULE_SET.body \o ruleSet.body,
                            !.defaultPermissions = DEFAULT_RULE_SET.defaultPermissions]]
    ELSE [acc EXCEPT !.error = "Invalid rule for tableId"]
  ELSE IF ruleSet.colIds = Star THEN
    IF ruleSet.tableId \in DOMAIN acc.tableRuleSets
    THEN [acc EXCEPT !.error = "Invalid duplicate default rule"]
    ELSE [acc EXCEPT !.tableRuleSets = MapSet(@, ruleSet.tableId, ruleSet),
                     !.tableKeys = IF ruleSet.tableId \in Range(@) THEN @
                                   ELSE Append(@, ruleSet.tableId)]
  ELSE [acc EXCEPT !.colRuleSets =
                      MapSet(@, ruleSet.tableId, Append(MapGet(@, ruleSet.tableId, <<>>), ruleSet)),
                   !.colKeys = IF ruleSet.tableId \in Range(@) THEN @
                               ELSE Append(@, ruleSet.tableId),
                   !.tableColMap = AddColIds(@, ruleSet, ruleSet.colIds, 1)]

\* One iteration of the loop of update() over the rule sets; acc.error is
\* the exception thrown, if one was.
AddRuleSet(acc, ruleSet) ==
  IF ruleSet.tableId = "*" THEN
    IF ruleSet.colIds = Star
    THEN [acc EXCEPT !.defaultRuleSet =
            [ruleSet EXCEPT !.body = ruleSet.body \o DEFAULT_RULE_SET.body,
                            !.defaultPermissions = DEFAULT_RULE_SET.defaultPermissions]]
    ELSE [acc EXCEPT !.error = "Invalid rule for tableId"]
  ELSE IF ruleSet.colIds = Star THEN
    IF ruleSet.tableId \in DOMAIN acc.tableRuleSets
    THEN [acc EXCEPT !.error = "Invalid duplicate default rule"]
    ELSE [acc EXCEPT !.tableRuleSets = MapSet(@, ruleSet.tableId, ruleSet),
                     !.tableKeys = IF ruleSet.tableId \in Range(@) THEN @
                                   ELSE Append(@, ruleSet.tableId)]
  ELSE [acc EXCEPT !.colRuleSets =
                      MapSet(@, ruleSet.tableId, Append(MapGet(@, ruleSet.tableId, <<>>), ruleSet)),
                   !.colKeys = IF ruleSet.tableId \in Range(@) THEN @
                               ELSE Append(@, ruleSet.tableId),
                   !.tableColMap = AddColIds(@, ruleSet, ruleSet.colIds, 1)]

RECURSIVE BuildRuleMaps(_, _)
BuildRuleMaps(ruleSets, acc) ==
  IF ruleSets = <<>> \/ acc.error # "" THEN acc
  ELSE BuildRuleMaps(Tail(ruleSets), AddRuleSet(acc, Head(ruleSets)))

RuleMaps(ruleSets) ==
  BuildRuleMaps(ruleSets,
    [error |-> "", colRuleSets |-> EmptyMap, tableColMap |-> EmptyMap,
     tableRuleSets |-> EmptyMap, defaultRuleSet |-> DEFAULT_RULE_SET,
     colKeys |-> <<>>, tableKeys |-> <<>>])

\* [...new Set([...colRuleSets.keys(), ...tableRuleSets.keys()])]
AllTableIds(maps) ==
  maps.colKeys \o SelectSeq(maps.tableKeys, LAMBDA t : t \notin Range(maps.colKeys))

\* _fetchQueryFromDB({tableId, filters: {}}) for the source table of an attribute.
FetchTable(tableId) ==
  IF tableId = PeopleTable THEN PeopleData ELSE TableData(tableId, <<>>, EmptyMap)

RECURSIVE RowNums(_, _, _)
\* The loop of _updateCharacteristicTable: normalized key -> row index; a
\* later row with the same key replaces the earlier one.
RowNums(matches, i, acc) ==
  IF i > Len(matches) THEN acc
  ELSE RowNums(matches, i + 1, MapSet(acc, NormalizeValue(matches[i], FALSE), i))

\* The CharacteristicTable made of the data fetched for a user attribute rule.
CharacteristicTable(clause, data) ==
  [tableId |-> clause.tableId, colId |-> clause.lookupColId,
   rowNums |-> RowNums(data.colValues[clause.lookupColId], 1, EmptyMap),
   data |-> data]

\* The fields of a UserInfo that hold strings (or null).
UserStringFields == {"Access", "Email", "Name"}

RECURSIVE GetUserLoop(_, _, _)
\* The loop of _getUser over the user attribute rules.
GetUserLoop(st, clauses, user) ==
  IF clauses = <<>> THEN user
  ELSE LET clause == Head(clauses)
           next ==
             IF clause.name \in DOMAIN user THEN user
             ELSE IF clause.name \in DOMAIN st.characteristicTables
             THEN LET ct == st.characteristicTables[clause.name]
                      character == NormalizeValue(MapGet(user, clause.charId, Null),
                                                  clause.charId \notin UserStringFields)
                  IN IF character \in DOMAIN ct.rowNums
                     THEN MapSet(user, clause.name, RecordView(ct.data, ct.rowNums[character]))
                     ELSE MapSet(user, clause.name, EmptyRecordView)
             ELSE MapSet(user, clause.name, EmptyRecordView)
       IN GetUserLoop(st, Tail(clauses), next)

\* _getUser: the UserInfo of a session, enriched by the user attribute rules.
GetUser(st, docSession) ==
  LET fullUser == docSession.user
      user == [Access |-> docSession.access,
               UserID |-> IF fullUser = NoUser THEN 0 ELSE fullUser.id,   \* 0 for null
               Email  |-> IF fullUser = NoUser THEN Null ELSE fullUser.email,
               Name   |-> IF fullUser = NoUser THEN Null ELSE fullUser.name]
  IN GetUserLoop(st, st.userAttributeRules, user)

\* new PermissionInfo(this, {user: this._getUser(docSession)})
NewPermissionInfo(st, docSession) == [user |-> GetUser(st, docSession), rec |-> NoRec]

\* _getAccess: the PermissionInfo cached for the session, made on a miss.
GetAccess(st, pim, docSession) ==
  IF docSession \in DOMAIN pim THEN pim[docSession] ELSE NewPermissionInfo(st, docSession)

\* _permissionInfoMap after _getAccess(docSession).
CacheAccess(st, pim, docSession) ==
  IF docSession \in DOMAIN pim THEN pim
  ELSE MapSet(pim, docSession, NewPermissionInfo(st, docSession))

\* hasTableAccess: the read of the table is not denied to the session.
hasTableAccess(st, pim, docSession, tableId) ==
  getTableAccess(st, GetAccess(st, pim, docSession), tableId).read # "deny"

(***************************************************************************)
(* DocActions.  [name, tableId, rowIds, colValues] for a record action     *)
(* (a single-record action holds one row id and one value per column,      *)
(* kept here as lists of length one), [name, tableId, colId] for a column  *)
(* action, [name, tableId] for a table action.                             *)
(***************************************************************************)
\* colValues of an action that has none (a[3] is undefined).
NoColValues == [undefined |-> <<>>]
\* null, where the code returns an action or null.
Nil == [nil |-> TRUE]

SingleActions == {"AddRecord", "UpdateRecord", "RemoveRecord"}
AddActions    == {"AddRecord", "BulkAddRecord", "ReplaceTableData", "TableData"}
UpdateActions == {"UpdateRecord", "BulkUpdateRecord"}
RemoveActions == {"RemoveRecord", "BulkRemoveRecord"}
ColumnActions == {"AddColumn", "RemoveColumn", "RenameColumn", "ModifyColumn"}
TableActions  == {"AddTable", "RemoveTable", "RenameTable"}

DocAction(name, tableId, rowIds, colValues) ==
  [name |-> name, tableId |-> tableId, rowIds |-> rowIds, colValues |-> colValues, colId |-> ""]
SchemaAction(name, tableId, colId) ==
  [name |-> name, tableId |-> tableId, rowIds |-> <<>>, colValues |-> NoColValues, colId |-> colId]

isSchemaAction(a) == a.name \in ColumnActions \cup TableActions
getTableId(a) == a.tableId
getRowIdsFromDocAction(a) == a.rowIds

\* Position of a row id in a list of row ids, 0 when it is not there.
IndexOf(rowIds, id) ==
  IF \E i \in DOMAIN rowIds : rowIds[i] = id
  THEN CHOOSE i \in DOMAIN rowIds : rowIds[i] = id
  ELSE 0

\* lodash pullAt on a list: the elements at the given positions are removed.
PullAt(list, positions) ==
  LET keep == SelectSeq([i \in DOMAIN list |-> i], LAMBDA i : i \notin positions)
  IN [k \in 1..Len(keep) |-> list[keep[k]]]

PullAtCols(colValues, positions) ==
  [c \in DOMAIN colValues |-> PullAt(colValues[c], positions)]

(***************************************************************************)
(* The in-memory tables (DocData / TableData.receiveAction) on which the   *)
(* row snapshots are rebuilt, and the action bundles of the model.         *)
(***************************************************************************)
DefaultCell == ""

\* TableData.receiveAction for a record action on the table data td.
ReceiveAction(td, a) ==
  CASE a.name \in {"AddRecord", "BulkAddRecord"} ->
         [td EXCEPT !.rowIds = @ \o a.rowIds,
                    !.colValues = [c \in DOMAIN @ |->
                       @[c] \o (IF c \in DOMAIN a.colValues THEN a.colValues[c]
                                ELSE [i \in DOMAIN a.rowIds |-> DefaultCell])]]
    [] a.name \in UpdateActions ->
         [td EXCEPT !.colValues = [c \in DOMAIN @ |->
            [i \in DOMAIN td.rowIds |->
               IF c \in DOMAIN a.colValues /\ IndexOf(a.rowIds, td.rowIds[i]) # 0
               THEN a.colValues[c][IndexOf(a.rowIds, td.rowIds[i])]
               ELSE @[c][i]]]]
    [] a.name \in RemoveActions ->
         LET gone == {i \in DOMAIN td.rowIds : td.rowIds[i] \in Range(a.rowIds)}
         IN [td EXCEPT !.rowIds = PullAt(@, gone), !.colValues = PullAtCols(@, gone)]
    [] a.name \in {"ReplaceTableData", "TableData"} ->
         [td EXCEPT !.rowIds = a.rowIds, !.colValues = a.colValues]
    [] OTHER -> td

\* The action that undoes record action a on table data td.
UndoOf(td, a) ==
  CASE a.name \in {"AddRecord", "BulkAddRecord"} ->
         DocAction("BulkRemoveRecord", a.tableId, a.rowIds, NoColValues)
    [] a.name \in UpdateActions ->
         DocAction("BulkUpdateRecord", a.tableId, a.rowIds,
                   [c \in DOMAIN a.colValues |->
                      [i \in DOMAIN a.rowIds |-> td.colValues[c][IndexOf(td.rowIds, a.rowIds[i])]]])
    [] a.name \in RemoveActions ->
         DocAction("BulkAddRecord", a.tableId, a.rowIds,
                   [c \in DOMAIN td.colValues |->
                      [i \in DOMAIN a.rowIds |-> td.colValues[c][IndexOf(td.rowIds, a.rowIds[i])]]])
    [] OTHER -> a

RECURSIVE ApplyActions(_, _)
\* The tables (tableId -> table data) after the actions, each applied to its table.
ApplyActions(tables, actions) ==
  IF actions = <<>> THEN tables
  ELSE LET a == Head(actions)
       IN ApplyActions(
            IF a.tableId \in DOMAIN tables
            THEN [tables EXCEPT ![a.tableId] = ReceiveAction(@, a)] ELSE tables,
            Tail(actions))

RECURSIVE UndoLog(_, _)
\* The undo actions of a bundle applied to the tables, in the order that undoes it.
UndoLog(tables, actions) ==
  IF actions = <<>> THEN <<>>
  ELSE LET a == Head(actions)
       IN UndoLog(ApplyActions(tables, <<a>>), Tail(actions))
            \o (IF a.tableId \in DOMAIN tables THEN <<UndoOf(tables[a.tableId], a)>> ELSE <<>>)

\* getRelatedRows(undo): tableId -> the row ids the actions touch.
getRelatedRows(actions) ==
  LET tids == {actions[i].tableId : i \in DOMAIN actions}
  IN [t \in tids |->
        UNION {Range(actions[i].rowIds) : i \in {j \in DOMAIN actions : actions[j].tableId = t}}]

\* _fetchQueryFromDB({tableId, filters: {id: ids}}): the rows of the store with these ids.
FetchRows(store, tableId, ids) ==
  LET td == store[tableId]
      gone == {i \in DOMAIN td.rowIds : td.rowIds[i] \notin ids}
  IN TableData(tableId, PullAt(td.rowIds, gone), PullAtCols(td.colValues, gone))

RECURSIVE StepForward(_, _)
\* The forward pass of the snapshot builder: for each action, the table
\* before and after it.
StepForward(tables, docActions) ==
  IF docActions = <<>> THEN <<>>
  ELSE LET a == Head(docActions)
           before == tables[getTableId(a)]
           next == ApplyActions(tables, <<a>>)
           after == next[getTableId(a)]
       IN << <<before, after>> >> \o StepForward(next, Tail(docActions))

\* The function given to AsyncCreate by beforeBroadcast: the rows touched by
\* the undo actions are fetched from the store, the undo actions applied to
\* them, and the forward actions replayed.
BuildRowSnapshots(store, docActions, undo) ==
  LET rows == getRelatedRows(undo)
      fetched == [t \in DOMAIN rows |-> FetchRows(store, t, rows[t])]
  IN StepForward(ApplyActions(fetched, undo), docActions)

(***************************************************************************)
(* Pruning of one outgoing DocAction.  An operation that can throw yields  *)
(* a record whose field `throws` names the exception ("" for none).        *)
(***************************************************************************)
NEED_RELOAD == [throws |-> "NEED_RELOAD"]

\* _filterColumns: the columns the predicate keeps.
FilterColumns(colValues, shouldInclude(_)) ==
  [c \in {x \in DOMAIN colValues : shouldInclude(x)} |-> colValues[c]]

\* The columns an action carries or names.
ActionColIds(a) ==
  IF a.name \in ColumnActions THEN {a.colId}
  ELSE IF a.name \in AddActions \cup UpdateActions THEN DOMAIN a.colValues
  ELSE {}

\* The columns among colIds whose read the PermissionInfo denies.
DeniedColumns(st, permInfo, tableId, colIds) ==
  {colId \in colIds : getColumnAccess(st, permInfo, tableId, colId).read = "deny"}

\* A _pruneColumns that passes a column action on a column that is not denied.
PruneColumnsOf_passColumn(a, denied) ==
  IF a.name \in RemoveActions THEN a
  ELSE IF a.name \in AddActions \cup UpdateActions THEN
    LET na == [a EXCEPT !.colValues = FilterColumns(@, LAMBDA colId : colId \notin denied)]
    IN IF DOMAIN na.colValues = {} THEN Nil ELSE na
  ELSE IF a.name \in ColumnActions THEN
    IF a.colId \in denied THEN Nil ELSE a
  ELSE a

\* _pruneColumns, given the denied columns of the action: the action
\* without them, Nil if nothing is left, NEED_RELOAD for a column action on
\* a column that is not denied.
PruneColumnsOf(a, denied) ==
  IF a.name \in RemoveActions THEN a
  ELSE IF a.name \in AddActions \cup UpdateActions THEN
    LET na == [a EXCEPT !.colValues = FilterColumns(@, LAMBDA colId : colId \notin denied)]
    IN IF DOMAIN na.colValues = {} THEN Nil ELSE na
  ELSE IF a.name \in ColumnActions THEN
    IF a.colId \in denied THEN Nil ELSE NEED_RELOAD
  ELSE a

\* _pruneColumns.
PruneColumns(st, permInfo, a, tableId) ==
  PruneColumnsOf(a, DeniedColumns(st, permInfo, tableId, ActionColIds(a)))

\* The input of the PermissionInfo made for one row of data.
RowInput(st, docSession, data, index) ==
  [user |-> GetUser(st, docSession), rec |-> RecordView(data, index)]

\* _getForbiddenRows: the ids among `ids` of the rows of data whose read is denied.
GetForbiddenRows(st, docSession, data, ids) ==
  {data.rowIds[idx] : idx \in
     {i \in DOMAIN data.rowIds :
        /\ data.rowIds[i] \in ids
        /\ getTableAccess(st, RowInput(st, docSession, data, i), data.tableId).read = "deny"}}

\* _removeRowsAt: the rows at the given positions removed from rowIds and colValues.
RemoveRowsAt(toRemove, a) ==
  IF toRemove = {} THEN a
  ELSE [a EXCEPT !.rowIds = PullAt(@, toRemove),
                 !.colValues = IF @ = NoColValues THEN @ ELSE PullAtCols(@, toRemove)]

\* The JavaScript expression `has && idx || -1` of _removeRows, idx counted from 0.
MaskEntry(has, idx) == IF has /\ idx # 0 THEN idx ELSE -1

\* _removeRows: {action, alias}; action is Nil when the action ends up
\* empty, and alias tells that the action returned is the object passed in.
RemoveRows(a, rowIds) ==
  IF isSchemaAction(a) THEN [action |-> a, alias |-> TRUE]
  ELSE IF a.name \in SingleActions THEN
    IF a.rowIds[1] \in rowIds THEN [action |-> Nil, alias |-> FALSE]
    ELSE [action |-> a, alias |-> TRUE]
  ELSE
    LET mask == {i \in DOMAIN a.rowIds : MaskEntry(a.rowIds[i] \in rowIds, i - 1) # -1}
        na == RemoveRowsAt(mask, a)
    IN IF Len(na.rowIds) = 0 THEN [action |-> Nil, alias |-> FALSE]
       ELSE [action |-> na, alias |-> FALSE]

\* _makeAdditions: a BulkAddRecord for a set of rows of data.
MakeAdditions(data, rowIds) ==
  IF rowIds = {} THEN Nil
  ELSE LET notAdded == {id \in Range(data.rowIds) : id \notin rowIds}
           partialData == RemoveRows(data, notAdded).action
       IN IF partialData = Nil THEN Nil
          ELSE DocAction("BulkAddRecord", partialData.tableId, partialData.rowIds,
                         partialData.colValues)

\* _makeRemovals: a BulkRemoveRecord for a list of rows.
MakeRemovals(data, rowIds) ==
  IF rowIds = <<>> THEN Nil
  ELSE DocAction("BulkRemoveRecord", getTableId(data), rowIds, NoColValues)

\* The verdicts the loop of _filterRowsAndCells asks a fresh PermissionInfo
\* for, per row of the action: the read of the row (getTableAccess for the
\* record) and the read of each column of the action for the record.
\* dataIndex[idx] is the place in data of the row at idx of the action.
RowVerdicts(st, docSession, data, tableId, colIds, dataIndex) ==
  [idx \in DOMAIN dataIndex |->
     [row |-> getTableAccess(st, RowInput(st, docSession, data, dataIndex[idx]), tableId).read,
      col |-> [colId \in colIds |->
                 getColumnAccess(st, RowInput(st, docSession, data, dataIndex[idx]),
                                 tableId, colId).read]]]

\* A _filterRowsAndCells that censors no cell.
CensorCells_noCensor(docAction, verdicts, same) ==
  LET toRemove == {idx \in DOMAIN verdicts : verdicts[idx].row = "deny"}
  IN IF toRemove = {} THEN [throws |-> "", action |-> docAction]
     ELSE IF same THEN [throws |-> "", action |-> RemoveRowsAt(toRemove, docAction)]
     ELSE [throws |-> "Unexpected row removal", action |-> docAction]

\* What _filterRowsAndCells does to docAction with these verdicts: cells
\* of rows neither denied nor allowed are censored where the column is not
\* allowed; denied rows are removed if docAction is data itself (same), and
\* are an error otherwise.  The action is changed in place: `action` is
\* what it holds when the call returns or throws.
CensorCells(docAction, verdicts, same) ==
  LET toRemove == {idx \in DOMAIN verdicts : verdicts[idx].row = "deny"}
      censorAt(colId, idx) ==
        /\ verdicts[idx].row \notin {"deny", "allow"}
        /\ verdicts[idx].col[colId] # "allow"
      censored == [docAction EXCEPT !.colValues =
                     [colId \in DOMAIN @ |->
                        [idx \in DOMAIN @[colId] |->
                           IF idx \in DOMAIN verdicts /\ censorAt(colId, idx)
                           THEN CENSORED ELSE @[colId][idx]]]]
  IN IF toRemove = {} THEN [throws |-> "", action |-> censored]
     ELSE IF same THEN [throws |-> "", action |-> RemoveRowsAt(toRemove, censored)]
     ELSE [throws |-> "Unexpected row removal", action |-> censored]

\* _filterRowsAndCells on docAction against data; same tells that docAction
\* is data itself.
FilterRowsAndCells(st, docSession, data, docAction, same) ==
  IF isSchemaAction(docAction) \/ docAction.colValues = NoColValues
  THEN [throws |-> "", action |-> docAction]
  ELSE CensorCells(docAction,
         RowVerdicts(st, docSession, data, docAction.tableId, DOMAIN docAction.colValues,
                     [idx \in DOMAIN getRowIdsFromDocAction(docAction) |->
                        IF same THEN idx
                        ELSE IndexOf(data.rowIds, getRowIdsFromDocAction(docAction)[idx])]),
         same)

\* The sets removals, forceAdds and forceRemoves that the loop of _pruneRows
\* over the row ids of the action computes.
RowPlan(a, forbiddenBefores, forbiddenAfters) ==
  LET ids == Range(getRowIdsFromDocAction(a))
      changed(id) == (id \in forbiddenBefores) # (id \in forbiddenAfters)
      nowAllowed(id) == changed(id) /\ id \in forbiddenBefores
      nowForbidden(id) == changed(id) /\ id \notin forbiddenBefores
  IN [removals |->
        {id \in ids :
           \/ id \in forbiddenBefores /\ id \in forbiddenAfters
           \/ nowAllowed(id) /\ a.name \notin AddActions
           \/ nowForbidden(id) /\ a.name \notin RemoveActions},
      forceAdds |-> {id \in ids : nowAllowed(id) /\ a.name \in UpdateActions},
      forceRemoves |->
        SelectSeq(getRowIdsFromDocAction(a),
                  LAMBDA id : nowForbidden(id) /\ a.name \in UpdateActions)]

\* A revisedDocActions with the action ahead of the additions.
RevisedDocActions_actionFirst(a, rowsAfter, plan) ==
  SelectSeq(<< [role |-> "revised", action |-> RemoveRows(a, plan.removals).action,
                alias |-> RemoveRows(a, plan.removals).alias],
               [role |-> "forceAdds", action |-> MakeAdditions(rowsAfter, plan.forceAdds),
                alias |-> FALSE],
               [role |-> "forceRemoves", action |-> MakeRemovals(rowsAfter, plan.forceRemoves),
                alias |-> FALSE] >>,
            LAMBDA r : r.action # Nil)

\* revisedDocActions of _pruneRows: the additions, the action without its
\* removals, the removals, those that are null left out; each with the
\* place it has in the plan, and whether it is the object passed in.
RevisedDocActions(a, rowsAfter, plan) ==
  SelectSeq(<< [role |-> "forceAdds", action |-> MakeAdditions(rowsAfter, plan.forceAdds),
                alias |-> FALSE],
               [role |-> "revised", action |-> RemoveRows(a, plan.removals).action,
                alias |-> RemoveRows(a, plan.removals).alias],
               [role |-> "forceRemoves", action |-> MakeRemovals(rowsAfter, plan.forceRemoves),
                alias |-> FALSE] >>,
            LAMBDA r : r.action # Nil)

\* The loop of _pruneRows that applies _filterRowsAndCells to each revised
\* action, in order, until one throws: filtered[k] is what the call on
\* revised[k] does.  actions: what _pruneRows returns; input: the action
\* passed in, as the call leaves it.
PrunedRows(a, revised, filtered) ==
  LET thrownAt == {k \in DOMAIN filtered : filtered[k].throws # ""}
      first == CHOOSE k \in thrownAt : \A j \in thrownAt : k <= j
      reached == {k \in DOMAIN filtered : thrownAt = {} \/ k <= first}
      aliasAt == {k \in reached : revised[k].alias}
  IN [throws |-> IF thrownAt = {} THEN "" ELSE filtered[first].throws,
      actions |-> IF thrownAt # {} THEN <<>>
                  ELSE [k \in DOMAIN revised |->
                          [role |-> revised[k].role, action |-> filtered[k].action]],
      input |-> IF aliasAt = {} THEN a ELSE filtered[CHOOSE k \in aliasAt : TRUE].action]

\* _pruneRows from its revised actions on.
PruneRowsPlanned(st, docSession, a, rowsAfter, revised) ==
  PrunedRows(a, revised,
             [k \in DOMAIN revised |->
                FilterRowsAndCells(st, docSession, rowsAfter, revised[k].action, FALSE)])

\* A _pruneRows that leaves the rows of the action as they are.
PruneRowsWith_keepRows(st, docSession, a, rowsBefore, rowsAfter) ==
  [throws |-> "", actions |-> << [role |-> "revised", action |-> a] >>, input |-> a]

\* _pruneRows once the row snapshots of the action are at hand (the action
\* is no schema action).
PruneRowsWith(st, docSession, a, rowsBefore, rowsAfter) ==
  PruneRowsPlanned(st, docSession, a, rowsAfter,
    RevisedDocActions(a, rowsAfter,
      RowPlan(a,
        GetForbiddenRows(st, docSession, rowsBefore, Range(getRowIdsFromDocAction(a))),
        GetForbiddenRows(st, docSession, rowsAfter, Range(getRowIdsFromDocAction(a))))))

\* The end of pruneOutgoingDocAction on the mixed path: _pruneColumns on
\* each revised action, the nulls dropped.
PruneRevised(st, permInfo, revisedDocActions, tableId) ==
  LET pruned == [i \in DOMAIN revisedDocActions |->
                   [role |-> revisedDocActions[i].role,
                    action |-> PruneColumns(st, permInfo, revisedDocActions[i].action, tableId)]]
  IN IF \E i \in DOMAIN pruned : pruned[i].action = NEED_RELOAD
     THEN [throws |-> "NEED_RELOAD", actions |-> <<>>]
     ELSE [throws |-> "", actions |-> SelectSeq(pruned, LAMBDA r : r.action # Nil)]

(***************************************************************************)
(* filterOutgoingDocActions.  The prunings of a call run up to their first *)
(* suspension (the request of the row snapshots) when the call is made;    *)
(* those that wait are resumed, in the order they were made, when the row  *)
(* snapshots arrive.                                                       *)
(***************************************************************************)
Waiting == [waiting |-> TRUE]

\* The AsyncCreate cell made by beforeBroadcast: state is "empty" until the
\* first get(), "running" while its function runs, "ready" with the value;
\* runs counts the times its function was started.
NewAsyncCreate == [state |-> "empty", value |-> <<>>, runs |-> 0]

\* AsyncCreate.get(): the function is started unless a value or a run is there.
AsyncCreateGet(cell) ==
  IF cell.state = "empty" THEN [cell EXCEPT !.state = "running", !.runs = @ + 1] ELSE cell

\* A request that starts the function of the cell whenever no value is there.
RequestSnapshots_rerun(cell) ==
  IF cell.state = "ready" THEN cell ELSE [cell EXCEPT !.state = "running", !.runs = @ + 1]

\* The request of _pruneRows for the row snapshots (this._rowSnapshots.get()).
RequestSnapshots(cell) == AsyncCreateGet(cell)

\* A pruneOutgoingDocAction that passes the actions on a denied table.
PruneOn_ignoreDeny(st, permInfo, a, cell, read) ==
  IF read \in {"deny", "allow"} THEN [throws |-> "", actions |-> << [role |-> "revised", action |-> a] >>]
  ELSE IF read = "mixedColumns" \/ isSchemaAction(a)
  THEN PruneRevised(st, permInfo, << [role |-> "revised", action |-> a] >>, getTableId(a))
  ELSE IF cell = Nil THEN [throws |-> "Actions not available", actions |-> <<>>]
  ELSE Waiting

\* pruneOutgoingDocAction from the read verdict of the table on, up to the
\* request of the row snapshots: the result, or Waiting when the pruning
\* needs the snapshots.
PruneOn(st, permInfo, a, cell, read) ==
  IF read = "deny" THEN [throws |-> "", actions |-> <<>>]
  ELSE IF read = "allow" THEN [throws |-> "", actions |-> << [role |-> "revised", action |-> a] >>]
  ELSE IF read = "mixedColumns" \/ isSchemaAction(a)
  THEN PruneRevised(st, permInfo, << [role |-> "revised", action |-> a] >>, getTableId(a))
  ELSE IF cell = Nil THEN [throws |-> "Actions not available", actions |-> <<>>]
  ELSE Waiting

\* pruneOutgoingDocAction up to the request of the row snapshots.
PruneStart(st, permInfo, a, cell) ==
  PruneOn(st, permInfo, a, cell, getTableAccess(st, permInfo, getTableId(a)).read)

\* pruneOutgoingDocAction after _pruneRows returned r.
PruneAfterRows(st, permInfo, a, r) ==
  IF r.throws # "" THEN [throws |-> r.throws, actions |-> <<>>, input |-> r.input]
  ELSE [throws |-> PruneRevised(st, permInfo, r.actions, getTableId(a)).throws,
        actions |-> PruneRevised(st, permInfo, r.actions, getTableId(a)).actions,
        input |-> r.input]

\* The rest of pruneOutgoingDocAction once the row snapshots are there.
PruneResume(st, permInfo, docSession, a, snapshot) ==
  PruneAfterRows(st, permInfo, a, PruneRowsWith(st, docSession, a, snapshot[1], snapshot[2]))

\* ([] as DocAction[]).concat(...actions): the results of the prunings in
\* the order of the bundle, each action with the index it derives from.
ConcatResults(results) ==
  Flatten([i \in DOMAIN results |->
             [k \in DOMAIN results[i].actions |->
                [src |-> i, role |-> results[i].actions[k].role,
                 action |-> results[i].actions[k].action]]])

\* The exception of the first of the prunings to throw among those that do
\* not wait for the row snapshots ("" if none throws): a pruning that does
\* not call _pruneRows (the read of its table is not mixed) has thrown when
\* pruneOutgoingDocAction returns its promise, one that does throws when
\* its await of _pruneRows resumes; among equals the order is the bundle's.
EarlyThrow(results, reads) ==
  LET thrown == {i \in DOMAIN results : results[i] # Waiting /\ results[i].throws # ""}
      atOnce == {i \in thrown : reads[i] # "mixed"}
      first == CHOOSE i \in thrown :
                 /\ atOnce # {} => i \in atOnce
                 /\ \A j \in thrown : (atOnce # {} => j \in atOnce) => i <= j
  IN IF thrown = {} THEN "" ELSE results[first].throws

\* The exception of the first pruning of the bundle that threw ("" if none).
FirstThrow(results) ==
  LET thrown == {i \in DOMAIN results : results[i].throws # ""}
  IN IF thrown = {} THEN ""
     ELSE results[CHOOSE i \in thrown : \A j \in thrown : i <= j].throws

\* The record of a call of filterOutgoingDocActions that returns.
Returned(call, after, throws) ==
  [op |-> "filterOutgoingDocActions", docSession |-> call.docSession,
   docActions |-> call.docActions, after |-> after, snapshots |-> call.snapshots,
   throws |-> throws,
   actions |-> IF throws = "" THEN ConcatResults(call.results) ELSE <<>>]

\* What a call of filterOutgoingDocActions returns: Promise.all rejects
\* with the exception of the first pruning to throw, which is one that did
\* not wait for the row snapshots if there is one; else the results are
\* joined.
FilterResult(call, after) ==
  Returned(call, after, IF call.early # "" THEN call.early ELSE FirstThrow(call.results))

\* A call whose prunings have all ended with `resumed`: the call with every
\* result, and the actions of the bundle as the prunings leave them.
CallResumed(call, resumed) ==
  [call |-> [call EXCEPT !.results =
               [i \in DOMAIN resumed |->
                  [throws |-> resumed[i].throws, actions |-> resumed[i].actions]]],
   docActions |-> [i \in DOMAIN resumed |-> resumed[i].input]]

\* The prunings of a call that wait, resumed with the snapshots; the call
\* keeps what its prunings got from the cell.
ResumeCall(st, call, docActions, snapshots) ==
  CallResumed([call EXCEPT !.snapshots =
                 IF \E i \in DOMAIN call.results : call.results[i] = Waiting
                 THEN snapshots ELSE <<>>],
    [i \in DOMAIN call.results |->
       IF call.results[i] = Waiting
       THEN PruneResume(st, call.permInfo, call.docSession, docActions[i], snapshots[i])
       ELSE [throws |-> call.results[i].throws,
             actions |-> call.results[i].actions, input |-> docActions[i]]])

RECURSIVE ResumeCalls(_, _, _, _, _)
RECURSIVE ResumeNext(_, _, _, _, _)
\* The waiting calls resumed in the order they were made: the records of
\* what they return, and the actions of the bundle afterwards.
ResumeCalls(st, waiting, docActions, snapshots, returned) ==
  IF waiting = <<>> THEN [returned |-> returned, docActions |-> docActions]
  ELSE ResumeNext(st, waiting, snapshots, returned,
                  ResumeCall(st, Head(waiting), docActions, snapshots))

\* The prunings of the first waiting call have been resumed as r; the call
\* returns now unless Promise.all has rejected before.  The others follow.
ResumeNext(st, waiting, snapshots, returned, r) ==
  ResumeCalls(st, Tail(waiting), r.docActions, snapshots,
              IF r.call.early # "" THEN returned
              ELSE Append(returned, FilterResult(r.call, r.docActions)))

\* A call of filterOutgoingDocActions with its prunings run up to the
\* request of the row snapshots; snapshots is what they get from the cell.
StartCall(st, pim, docSession, docActions, cell) ==
  [docSession |-> docSession, permInfo |-> GetAccess(st, pim, docSession),
   docActions |-> docActions, snapshots |-> <<>>,
   results |-> [i \in DOMAIN docActions |->
                  PruneStart(st, GetAccess(st, pim, docSession), docActions[i], cell)],
   early |-> EarlyThrow(
               [i \in DOMAIN docActions |->
                  PruneStart(st, GetAccess(st, pim, docSession), docActions[i], cell)],
               [i \in DOMAIN docActions |->
                  getTableAccess(st, GetAccess(st, pim, docSession),
                                 getTableId(docActions[i])).read])]

(***************************************************************************)
(* filterMetaTables.  The metadata of the document does not change in the  *)
(* model: there are the data table with its two columns and the plain      *)
(* table with its one, and a view with one section for each.               *)
(***************************************************************************)
DocMeta ==
  [_grist_Tables |->
     TableData("_grist_Tables", <<1, 2>>, [tableId |-> <<DataTable, PlainTable>>]),
   _grist_Views |->
     TableData("_grist_Views", <<1, 2>>, [name |-> <<"view T", "view U">>]),
   _grist_Views_section |->
     TableData("_grist_Views_section", <<1, 2>>,
               [tableRef |-> <<1, 2>>, parentId |-> <<1, 2>>, title |-> <<"sec T", "sec U">>]),
   _grist_Tables_column |->
     TableData("_grist_Tables_column", <<1, 2, 3>>,
               [parentId |-> <<1, 1, 2>>, colId |-> <<"owner", "sec", "c">>,
                label |-> <<"Owner", "Sec", "C">>, widgetOptions |-> <<"w", "w", "w">>,
                formula |-> <<"f", "f", "f">>, type |-> <<"Text", "Text", "Text">>]),
   _grist_Views_section_field |->
     TableData("_grist_Views_section_field", <<1, 2, 3>>,
               [parentId |-> <<1, 1, 2>>, colRef |-> <<1, 2, 3>>,
                widgetOptions |-> <<"w", "w", "w">>, filter |-> <<"x", "x", "x">>])]

\* TableData.findRow(colId, value): the id of a row with the value, or 0.
FindRow(table, colId, value) ==
  LET at == {i \in DOMAIN table.rowIds : table.colValues[colId][i] = value}
  IN IF at = {} THEN 0 ELSE table.rowIds[CHOOSE i \in at : \A j \in at : i <= j]

\* TableData.getRecords(): the places of the rows of a table.
GetRecords(table) == DOMAIN table.rowIds

\* canReadEverything: the read of the whole document is allowed to the session.
canReadEverything(st, pim, docSession) ==
  getFullAccess(st, GetAccess(st, pim, docSession)).read = "allow"

\* censoredTables of filterMetaTables: the refs of the tables in rules whose
\* read is denied.
CensoredTables(st, permInfo, docData) ==
  {FindRow(docData._grist_Tables, "tableId", tableId) :
     tableId \in {t \in Range(st.tableIds) : getTableAccess(st, permInfo, t).read = "deny"}}
  \ {0}

\* censoredColumnCodes of filterMetaTables: table ref and column id of the
\* columns with a rule set whose read is denied.
CensoredColumnCodes(st, permInfo, docData) ==
  {code \in
     {<<FindRow(docData._grist_Tables, "tableId", tc[1]), tc[2]>> :
        tc \in {x \in UNION {{<<t, c>> :
                               c \in UNION {Range(rs.colIds) :
                                              rs \in {r \in Range(getColumnRuleSets(st, t)) :
                                                        r.colIds # Star}}} :
                            t \in Range(st.tableIds)} :
                  getColumnAccess(st, permInfo, x[1], x[2]).read = "deny"}} :
     code[1] # 0}

\* The sets of ids filterMetaTables censors, from the tables and column
\* codes it found to censor.
CensoredIds(docData, censoredTables, censoredColumnCodes) ==
  LET sections == docData._grist_Views_section
      columns == docData._grist_Tables_column
      fields == docData._grist_Views_section_field
      secAt == {i \in GetRecords(sections) : sections.colValues.tableRef[i] \in censoredTables}
      censoredSections == {sections.rowIds[i] : i \in secAt}
      censoredColumns ==
        {columns.rowIds[i] : i \in
           {j \in GetRecords(columns) :
              \/ columns.colValues.parentId[j] \in censoredTables
              \/ <<columns.colValues.parentId[j], columns.colValues.colId[j]>>
                   \in censoredColumnCodes}}
  IN [tables |-> censoredTables,
      views |-> {sections.colValues.parentId[i] : i \in secAt} \ {0},
      sections |-> censoredSections,
      columns |-> censoredColumns,
      fields |-> {fields.rowIds[i] : i \in
                    {j \in GetRecords(fields) :
                       \/ fields.colValues.parentId[j] \in censoredSections
                       \/ fields.colValues.colRef[j] \in censoredColumns}}]

\* A _censor that removes, for each id, the row at the place the id numbers.
Censor_zapAt(table, ids, blank) ==
  [table EXCEPT !.rowIds = PullAt(@, ids \cap DOMAIN table.rowIds),
                !.colValues = PullAtCols(@, ids \cap DOMAIN table.rowIds)]

\* _censor with an operation that writes blank[c] to column c: the table
\* with the rows of the given ids overwritten.
Censor(table, ids, blank) ==
  [table EXCEPT !.colValues =
     [c \in DOMAIN @ |->
        [idx \in DOMAIN @[c] |->
           IF table.rowIds[idx] \in ids /\ c \in DOMAIN blank THEN blank[c] ELSE @[c][idx]]]]

\* The copy of the metadata (strings and numbers come back from JSON as
\* they went in) with the rows of the censored ids overwritten.
CensorMeta(tables, ids) ==
  [tables EXCEPT
     !._grist_Tables = Censor(@, ids.tables, [tableId |-> ""]),
     !._grist_Views = Censor(@, ids.views, [name |-> ""]),
     !._grist_Views_section = Censor(@, ids.sections, [title |-> "", tableRef |-> 0]),
     !._grist_Tables_column =
        Censor(@, ids.columns, [label |-> "", colId |-> "", widgetOptions |-> "",
                                formula |-> "", type |-> "Any", parentId |-> 0]),
     !._grist_Views_section_field =
        Censor(@, ids.fields, [widgetOptions |-> "", filter |-> "", parentId |-> 0])]

\* filterMetaTables(docSession, tables) over the metadata docData of the
\* document: what it returns.
filterMetaTables(st, pim, docSession, docData, tables) ==
  IF canReadEverything(st, pim, docSession) THEN tables
  ELSE CensorMeta(tables,
         CensoredIds(docData,
                     CensoredTables(st, GetAccess(st, pim, docSession), docData),
                     CensoredColumnCodes(st, GetAccess(st, pim, docSession), docData)))

\* A filterMetaTables that censors the object it was given.
MetaTablesAfter_inPlace(st, pim, docSession, docData, tables) ==
  filterMetaTables(st, pim, docSession, docData, tables)

\* The object given to filterMetaTables as the call leaves it: the call
\* returns it as it is, or censors a copy of it.
MetaTablesAfter(st, pim, docSession, docData, tables) == tables

(***************************************************************************)
(* The rule metadata, stores and bundles of the model.                     *)
(***************************************************************************)
NoPermissions == emptyPermissionSet

\* "T:*" rule sets.
T_RowOwn    == RuleSet(DataTable, Star, << Rule(F_RecOwnerIsUser, "+R"), Rule(F_True, "-R") >>, NoPermissions)
T_RowNot    == RuleSet(DataTable, Star, << Rule(F_RecOwnerNotUser, "-R") >>, NoPermissions)
T_Deny      == RuleSet(DataTable, Star, << Rule(F_True, "-R") >>, NoPermissions)
T_ViewerDeny == RuleSet(DataTable, Star, << Rule(F_IsViewer, "-R") >>, NoPermissions)
T_Vip       == RuleSet(DataTable, Star, << Rule(F_TeamVip, "+R"), Rule(F_True, "-R") >>, NoPermissions)
\* "T:sec" and "T:owner" rule sets.
Sec_Deny    == RuleSet(DataTable, <<"sec">>, << Rule(F_True, "-R") >>, NoPermissions)
Sec_RowNot  == RuleSet(DataTable, <<"sec">>, << Rule(F_RecOwnerNotUser, "-R") >>, NoPermissions)
Owner_Deny  == RuleSet(DataTable, <<"owner">>, << Rule(F_IsViewer, "-R") >>, NoPermissions)
\* "T:sec" rule set that lets owners read the column in every row.
Sec_OwnerSees == RuleSet(DataTable, <<"sec">>,
                         << Rule(F_IsOwner, "+R"), Rule(F_RecOwnerNotUser, "-R") >>, NoPermissions)
\* "*:*" rule set written by a user.
Doc_OwnerDeny == RuleSet("*", Star, << Rule(F_IsOwner, "-R") >>, NoPermissions)
\* A rule set that update() rejects: tableId '*' with particular columns.
Bad_StarCols == RuleSet("*", <<"sec">>, << Rule(F_True, "-R") >>, NoPermissions)

TeamAttr == UserAttributeRule("Team", PeopleTable, "email", "Email")

AclRules(ruleSets, userAttributes) == [ruleSets |-> ruleSets, userAttributes |-> userAttributes]

Opt(S) == {<<>>} \cup {<<x>> : x \in S}

\* Rule metadata without user attributes: at most one rule set per scope.
PlainConfigs ==
  {AclRules(c1 \o c2 \o t, <<>>) :
     c1 \in Opt({Sec_Deny, Sec_RowNot}), c2 \in Opt({Owner_Deny}),
     t \in Opt({T_RowOwn, T_RowNot, T_Deny, T_ViewerDeny})}
  \cup {AclRules(<<Doc_OwnerDeny>>, <<>>), AclRules(<<Doc_OwnerDeny, T_RowOwn>>, <<>>)}

\* Rule metadata that update() rejects.
BadConfigs ==
  {AclRules(<<T_RowOwn, Bad_StarCols>>, <<>>), AclRules(<<T_Deny, T_RowNot>>, <<>>),
   AclRules(<<Sec_Deny, T_RowOwn, T_Deny>>, <<TeamAttr>>)}

\* Rule metadata with a user attribute.
AttrConfigs ==
  {AclRules(<<>>, <<>>), AclRules(<<T_Vip>>, <<TeamAttr>>), AclRules(<<T_RowOwn>>, <<TeamAttr>>),
   AclRules(<<T_Deny>>, <<>>)}

\* The rows of the data table with ids in `ids`, owners given by `owner`.
DataRows(ids, owner) ==
  LET rowIds == SeqOfSet(ids)
  IN TableData(DataTable, rowIds,
               [c \in DataCols |->
                  [i \in DOMAIN rowIds |-> IF c = "owner" THEN owner[rowIds[i]] ELSE "s"]])

PlainRows == TableData(PlainTable, <<1>>, [c |-> <<"u">>])

RowIds == 1..MaxRowId

\* The stores of the model: any rows of the data table, and the plain table.
Stores ==
  {[t \in {DataTable, PlainTable} |-> IF t = DataTable THEN DataRows(ids, owner) ELSE PlainRows] :
     ids \in SUBSET RowIds, owner \in [RowIds -> Owners]}

\* Lists of row ids in increasing order, one for each non-empty subset.
IdLists(ids) == {SeqOfSet(S) : S \in (SUBSET ids) \ {{}}}

\* Column values for the rows of an action: owner and sec, either or both.
ColValuesFor(rowIds) ==
  {[c \in cols |-> [i \in DOMAIN rowIds |-> IF c = "owner" THEN owner[i] ELSE "s"]] :
     cols \in (SUBSET DataCols) \ {{}}, owner \in [DOMAIN rowIds -> Owners]}

\* The record actions on the data table that the store admits: rows that
\* exist are updated or removed, rows that do not exist are added.
RecordActions(td) ==
  LET have == Range(td.rowIds)
      free == RowIds \ have
  IN  {DocAction("UpdateRecord", DataTable, <<id>>, cv) : id \in have, cv \in ColValuesFor(<<1>>)}
      \cup {DocAction("BulkUpdateRecord", DataTable, ids, cv) :
              <<ids, cv>> \in UNION {{<<l, v>> : v \in ColValuesFor(l)} : l \in IdLists(have)}}
      \cup {DocAction("RemoveRecord", DataTable, <<id>>, NoColValues) : id \in have}
      \cup {DocAction("BulkRemoveRecord", DataTable, ids, NoColValues) : ids \in IdLists(have)}
      \cup {DocAction("AddRecord", DataTable, <<id>>, cv) : id \in free, cv \in ColValuesFor(<<1>>)}
      \cup {DocAction("BulkAddRecord", DataTable, ids, cv) :
              <<ids, cv>> \in UNION {{<<l, v>> : v \in ColValuesFor(l)} : l \in IdLists(free)}}

\* Actions that leave the rows of the store as they are.
OtherActions ==
  {DocAction("UpdateRecord", PlainTable, <<1>>, [c |-> <<"u">>]),
   SchemaAction("ModifyColumn", DataTable, "sec"),
   SchemaAction("ModifyColumn", DataTable, "owner"),
   SchemaAction("AddTable", "V", "")}

\* Updates of the owner of rows, one row or all of them: the actions of the
\* longer bundles of the model.
OwnerUpdates(td) ==
  {a \in RecordActions(td) : a.name \in UpdateActions /\ DOMAIN a.colValues = {"owner"}}

\* Updates of one cell of a row.
CellUpdates(td) ==
  {a \in RecordActions(td) : a.name = "UpdateRecord" /\ Cardinality(DOMAIN a.colValues) = 1}

\* Changes of a column of the data table.
ColumnChanges == {a \in OtherActions : a.name = "ModifyColumn"}

\* The column actions on the columns of the data table.
ColumnSchemaActions ==
  {SchemaAction(name, DataTable, colId) : name \in ColumnActions, colId \in {"sec", "owner"}}

\* The actions a bundle of the given kind draws from, for the store as it is.
PickActions(store, kind) ==
  IF kind = "any" THEN RecordActions(store[DataTable]) \cup OtherActions
  ELSE IF kind = "column" THEN CellUpdates(store[DataTable]) \cup ColumnChanges
  ELSE IF kind = "schema" THEN CellUpdates(store[DataTable]) \cup ColumnSchemaActions
  ELSE OwnerUpdates(store[DataTable])

RECURSIVE Bundles(_, _, _)
\* The bundles of 1..n actions of the given kind, each action admitted by
\* the store as the actions before it leave it.
Bundles(store, n, kind) ==
  IF n = 0 THEN {}
  ELSE UNION {{<<a>>} \cup {<<a>> \o rest : rest \in Bundles(ApplyActions(store, <<a>>), n - 1, kind)} :
                a \in PickActions(store, kind)}

(***************************************************************************)
(* Initial state: the GranularAccess as constructed, over a document with  *)
(* some rule metadata and some rows.                                       *)
(***************************************************************************)
\* updating: no update() runs, or none runs and the rule metadata has
\* changed since the last one (the document was opened, or its rules were
\* edited), or one waits for the store to answer.
Idle == [idle |-> TRUE]
Needed == [needed |-> TRUE]

\* bundle: active once a bundle is applied and until afterBroadcast; count
\* is the number of bundles applied so far; docActions are the actions as
\* the calls made so far leave them, applied the actions as they were
\* applied to the store.
NoBundle(count) ==
  [active |-> FALSE, count |-> count, docActions |-> <<>>, applied |-> <<>>, undo |-> <<>>,
   served |-> {}, announced |-> FALSE]

InitWith(configs, stores) ==
  /\ aclRules \in configs
  /\ db \in stores
  /\ haveRules = NewStore.haveRules
  /\ columnRuleSets = NewStore.columnRuleSets
  /\ tableColumnMap = NewStore.tableColumnMap
  /\ tableRuleSets = NewStore.tableRuleSets
  /\ defaultRuleSet = NewStore.defaultRuleSet
  /\ tableIds = NewStore.tableIds
  /\ userAttributeRules = NewStore.userAttributeRules
  /\ characteristicTables = NewStore.characteristicTables
  /\ permissionInfoMap = EmptyMap
  /\ rowSnapshots = Nil
  /\ updating = Needed
  /\ bundle = NoBundle(0)
  /\ calls = <<>>
  /\ last = <<>>

(***************************************************************************)
(* Actions.  `last` holds the records of the calls that returned in the    *)
(* step that led to the state.                                             *)
(***************************************************************************)
callVars == <<rowSnapshots, bundle, calls>>

\* The document's rule metadata is edited; update() is due.
EditRules(configs) ==
  /\ updating = Idle
  /\ ~bundle.active
  /\ aclRules' \in configs \ {aclRules}
  /\ updating' = Needed
  /\ last' = <<>>
  /\ UNCHANGED <<db, storeVars, callVars>>

\* update() up to its first suspension: the rule maps are built and
\* installed, the cache of PermissionInfo dropped, the characteristic
\* tables cleared, and the first of them requested from the store.
UpdateStart ==
  /\ updating = Needed
  /\ LET maps == RuleMaps(aclRules.ruleSets)
         userAttributeMap == BuildUserAttributeMap(aclRules.userAttributes, <<>>)
     IN /\ haveRules' = (Len(aclRules.ruleSets) > 0)
        /\ IF maps.error # ""
           THEN /\ last' = << [op |-> "update", throws |-> maps.error, before |-> Store] >>
                /\ updating' = Idle
                /\ UNCHANGED <<columnRuleSets, tableColumnMap, tableRuleSets, defaultRuleSet,
                               tableIds, userAttributeRules, characteristicTables,
                               permissionInfoMap>>
           ELSE /\ columnRuleSets' = maps.colRuleSets
                /\ tableColumnMap' = maps.tableColMap
                /\ tableRuleSets' = maps.tableRuleSets
                /\ defaultRuleSet' = maps.defaultRuleSet
                /\ tableIds' = AllTableIds(maps)
                /\ userAttributeRules' = userAttributeMap
                /\ permissionInfoMap' = EmptyMap
                /\ characteristicTables' = EmptyMap
                /\ IF userAttributeMap = <<>>
                   THEN /\ updating' = Idle
                        /\ last' = << [op |-> "update", throws |-> "", before |-> Store] >>
                   ELSE /\ updating' = [pending |-> userAttributeMap, before |-> Store]
                        /\ last' = <<>>
  /\ UNCHANGED <<aclRules, db, callVars>>

\* The store answers the fetch of _updateCharacteristicTable: the table is
\* indexed and kept, and update() goes on to the next user attribute rule.
UpdateFetched ==
  /\ updating \notin {Idle, Needed}
  /\ LET clause == Head(updating.pending)
         tables == MapSet(characteristicTables, clause.name,
                          CharacteristicTable(clause, FetchTable(clause.tableId)))
         rest == Tail(updating.pending)
     IN /\ characteristicTables' = tables
        /\ IF rest = <<>>
           THEN /\ updating' = Idle
                /\ last' = << [op |-> "update", throws |-> "", before |-> updating.before] >>
           ELSE IF Head(rest).name \in DOMAIN tables
           THEN /\ updating' = Idle
                /\ last' = << [op |-> "update", throws |-> "duplicate name",
                               before |-> updating.before] >>
           ELSE /\ updating' = [updating EXCEPT !.pending = rest]
                /\ last' = <<>>
  /\ UNCHANGED <<aclRules, db, ruleVars, permissionInfoMap, callVars>>

\* hasTableAccess(docSession, tableId).
HasTableAccess(docSession, tableId) ==
  /\ last' = << [op |-> "hasTableAccess", docSession |-> docSession, tableId |-> tableId,
                 result |-> hasTableAccess(Store, permissionInfoMap, docSession, tableId)] >>
  /\ permissionInfoMap' = CacheAccess(Store, permissionInfoMap, docSession)
  /\ UNCHANGED <<aclRules, db, ruleVars, characteristicTables, updating, callVars>>

\* filterMetaTables(docSession, tables) on the metadata of the document,
\* for one of the at most maxClients sessions the document has; `after` is
\* the object passed in as the call leaves it.
FilterMetaTables(docSession, maxClients) ==
  /\ updating = Idle
  /\ ~bundle.active
  /\ Cardinality(DOMAIN permissionInfoMap \cup {docSession}) <= maxClients
  /\ last' = << [op |-> "filterMetaTables", docSession |-> docSession, tables |-> DocMeta,
                 result |-> filterMetaTables(Store, permissionInfoMap, docSession,
                                             DocMeta, DocMeta),
                 after |-> MetaTablesAfter(Store, permissionInfoMap, docSession,
                                           DocMeta, DocMeta)] >>
  /\ permissionInfoMap' = CacheAccess(Store, permissionInfoMap, docSession)
  /\ UNCHANGED <<aclRules, db, ruleVars, characteristicTables, updating, callVars>>

\* A bundle of actions is applied to the store, to be broadcast next; it
\* is one of at most max bundles.
ApplyBundleOf(docActions, max) ==
  /\ ~bundle.active
  /\ bundle.count < max
  /\ updating = Idle
  /\ db' = ApplyActions(db, docActions)
  /\ bundle' = [active |-> TRUE, count |-> bundle.count + 1, docActions |-> docActions,
                applied |-> docActions,
                undo |-> UndoLog(db, docActions), served |-> {}, announced |-> FALSE]
  /\ last' = <<>>
  /\ UNCHANGED <<aclRules, storeVars, updating, rowSnapshots, calls>>

ApplyBundle(docActions) == ApplyBundleOf(docActions, MaxBroadcasts)

\* beforeBroadcast(docActions, undo).
BeforeBroadcast ==
  /\ bundle.active
  /\ ~bundle.announced
  /\ rowSnapshots' = IF ~haveRules THEN rowSnapshots ELSE NewAsyncCreate
  /\ bundle' = [bundle EXCEPT !.announced = TRUE]
  /\ last' = << [op |-> "beforeBroadcast"] >>
  /\ UNCHANGED <<aclRules, db, storeVars, updating, calls>>

\* An afterBroadcast that leaves the row snapshots where they are.
AfterBroadcast_keepSnapshots ==
  /\ bundle.active
  /\ bundle.announced
  /\ calls = <<>>
  /\ rowSnapshots' = rowSnapshots
  /\ bundle' = NoBundle(bundle.count)
  /\ last' = << [op |-> "afterBroadcast"] >>
  /\ UNCHANGED <<aclRules, db, storeVars, updating, calls>>

\* afterBroadcast(), once the recipients have been served.
AfterBroadcast ==
  /\ bundle.active
  /\ bundle.announced
  /\ calls = <<>>
  /\ rowSnapshots' = Nil
  /\ bundle' = NoBundle(bundle.count)
  /\ last' = << [op |-> "afterBroadcast"] >>
  /\ UNCHANGED <<aclRules, db, storeVars, updating, calls>>

\* A call of filterOutgoingDocActions returns: r is the call with the
\* results of all its prunings.
FilterReturns(r) ==
  /\ calls' = calls
  /\ bundle' = [bundle EXCEPT !.served = @ \cup {r.call.docSession},
                              !.docActions = r.docActions]
  /\ last' = << FilterResult(r.call, r.docActions) >>

\* A call of filterOutgoingDocActions after the prunings have asked for
\* the row snapshots, cell: the prunings that wait are suspended if the
\* snapshots are not there yet, and with them the call, unless a pruning
\* that does not wait threw: Promise.all rejects then, and the call returns
\* while its other prunings go on.
FilterAsked(call, cell) ==
  /\ rowSnapshots' = cell
  /\ IF (\E i \in DOMAIN call.results : call.results[i] = Waiting) /\ cell.state # "ready"
     THEN /\ calls' = Append(calls, call)
          /\ bundle' = [bundle EXCEPT !.served = @ \cup {call.docSession}]
          /\ last' = IF call.early # "" THEN << Returned(call, bundle.docActions, call.early) >>
                     ELSE <<>>
     ELSE FilterReturns(ResumeCall(Store, call, bundle.docActions,
                                   IF cell = Nil THEN <<>> ELSE cell.value))

\* A call of filterOutgoingDocActions with its prunings started.
FilterStarted(call) ==
  FilterAsked(call, IF \E i \in DOMAIN call.results : call.results[i] = Waiting
                    THEN RequestSnapshots(rowSnapshots) ELSE rowSnapshots)

\* filterOutgoingDocActions(docSession, docActions) for a recipient of the
\* bundle, one of the at most maxClients sessions the document has: every
\* pruning runs up to the request of the row snapshots; the call returns at
\* once if none has to wait for them.
FilterOutgoingDocActions(docSession, maxClients) ==
  /\ bundle.active
  /\ bundle.announced
  /\ docSession \notin bundle.served
  /\ Cardinality(DOMAIN permissionInfoMap \cup {docSession}) <= maxClients
  /\ permissionInfoMap' = CacheAccess(Store, permissionInfoMap, docSession)
  /\ FilterStarted(StartCall(Store, permissionInfoMap, docSession, bundle.docActions,
                             rowSnapshots))
  /\ UNCHANGED <<aclRules, db, ruleVars, characteristicTables, updating>>

\* The waiting calls have been resumed with the row snapshots.
CallsResumed(r) ==
  /\ bundle' = [bundle EXCEPT !.docActions = r.docActions]
  /\ last' = r.returned
  /\ calls' = <<>>

\* The row snapshots are there.
SnapshotsReady(value) ==
  /\ rowSnapshots' = [rowSnapshots EXCEPT !.state = "ready", !.value = value]
  /\ CallsResumed(ResumeCalls(Store, calls, bundle.docActions, value, <<>>))

\* The store answers the fetch of the snapshot builder: the row snapshots
\* are built, and the prunings that wait for them run to their end.
SnapshotsBuilt ==
  /\ rowSnapshots # Nil
  /\ rowSnapshots.state = "running"
  /\ SnapshotsReady(BuildRowSnapshots(db, bundle.docActions, bundle.undo))
  /\ UNCHANGED <<aclRules, db, storeVars, updating>>

(***************************************************************************)
(* Specifications.                                                         *)
(***************************************************************************)
\* The document is opened with rule metadata without user attributes; each
\* bundle is one action of any kind and has one recipient.
Init == InitWith(PlainConfigs, Stores)

Next ==
  \/ UpdateStart
  \/ \E docActions \in Bundles(db, 1, "any") : ApplyBundle(docActions)
  \/ BeforeBroadcast
  \/ \E s \in Sessions : FilterOutgoingDocActions(s, 1)
  \/ SnapshotsBuilt
  \/ AfterBroadcast

Spec == Init /\ [][Next]_vars

\* The stores in which row 1 is alice's and every other row bob's.
OwnedStores ==
  {st \in Stores :
     \A i \in DOMAIN st[DataTable].rowIds :
       st[DataTable].colValues.owner[i] = IF st[DataTable].rowIds[i] = 1 THEN "alice" ELSE "bob"}

\* The document has one client, which fetches the metadata and receives the
\* bundles.
InitMeta == InitWith(PlainConfigs, OwnedStores)

NextMeta ==
  \/ UpdateStart
  \/ \E s \in Sessions : FilterMetaTables(s, 1)
  \/ \E docActions \in Bundles(db, 1, "any") : ApplyBundle(docActions)
  \/ BeforeBroadcast
  \/ \E s \in Sessions : FilterOutgoingDocActions(s, 1)
  \/ SnapshotsBuilt
  \/ AfterBroadcast

SpecMeta == InitMeta /\ [][NextMeta]_vars

\* Rule metadata that makes the read of the data table depend on the row,
\* for every session or for some, and rule metadata without rules.
MixedConfigs ==
  {AclRules(<<T_RowOwn>>, <<>>), AclRules(<<T_RowNot>>, <<>>),
   AclRules(<<T_ViewerDeny, Sec_RowNot>>, <<>>), AclRules(<<>>, <<>>)}

\* The document has two clients; the bundles are of up to MaxBundle updates
\* of the owner of rows.
InitBroadcast == InitWith(MixedConfigs, OwnedStores)

NextBroadcast ==
  \/ UpdateStart
  \/ \E docActions \in Bundles(db, MaxBundle, "owner") : ApplyBundle(docActions)
  \/ BeforeBroadcast
  \/ \E s \in Sessions : FilterOutgoingDocActions(s, 2)
  \/ SnapshotsBuilt
  \/ AfterBroadcast

SpecBroadcast == InitBroadcast /\ [][NextBroadcast]_vars

\* The rule metadata is edited and loaded again and again, with user
\* attributes or with errors in it, while sessions ask for access to tables.
ReloadConfigs == AttrConfigs \cup BadConfigs

InitReload == InitWith(ReloadConfigs, {st \in OwnedStores : st[DataTable].rowIds = <<1>>})

NextReload ==
  \/ EditRules(ReloadConfigs)
  \/ UpdateStart
  \/ UpdateFetched
  \/ \E s \in Sessions, t \in {DataTable, PlainTable} : HasTableAccess(s, t)

SpecReload == InitReload /\ [][NextReload]_vars

(***************************************************************************)
(* Properties of filterOutgoingDocActions.  `last` holds what the calls    *)
(* that returned in the last step returned.                                *)
(***************************************************************************)
\* The tables an action of the model can name.
TableNames == {DataTable, PlainTable, PeopleTable, "V"}

\* The places in `last` of the calls of filterOutgoingDocActions that
\* returned a list of actions.
Filtered ==
  {i \in DOMAIN last : last[i].op = "filterOutgoingDocActions" /\ last[i].throws = ""}

\* C1: if hasTableAccess(s, t) is false, no action that
\* filterOutgoingDocActions returns to s targets t, and no action of the
\* bundle on t contributes anything to what is returned.
C1_DeniedTableAbsent ==
  \A i \in Filtered : \A t \in TableNames :
    ~hasTableAccess(Store, permissionInfoMap, last[i].docSession, t) =>
      \A k \in DOMAIN last[i].actions :
        /\ getTableId(last[i].actions[k].action) # t
        /\ getTableId(last[i].docActions[last[i].actions[k].src]) # t

\* A call returned for a session without access to a table the bundle changes.
C1_Witness ==
  \E i \in Filtered : \E j \in DOMAIN last[i].docActions :
    /\ ~hasTableAccess(Store, permissionInfoMap, last[i].docSession,
                       getTableId(last[i].docActions[j]))
    /\ ~isSchemaAction(last[i].docActions[j])

\* The places in `last` of the calls, with the given name, made for a
\* session that can read everything.
ReadsEverything(op) ==
  {i \in DOMAIN last :
     /\ last[i].op = op
     /\ canReadEverything(Store, permissionInfoMap, last[i].docSession)}

\* C2: if canReadEverything(s) holds, filterOutgoingDocActions(s, B)
\* returns exactly B, and filterMetaTables(s, M) returns M.
C2_ReadEverythingUnfiltered ==
  /\ \A i \in ReadsEverything("filterOutgoingDocActions") :
       /\ last[i].throws = ""
       /\ [k \in DOMAIN last[i].actions |-> last[i].actions[k].action] = last[i].docActions
  /\ \A i \in ReadsEverything("filterMetaTables") : last[i].result = last[i].tables

\* A bundle on a table with rules was filtered for a session that is no
\* owner and can read everything, after it fetched the metadata or not.
C2_Witness ==
  \E i \in ReadsEverything("filterOutgoingDocActions") :
    /\ haveRules
    /\ last[i].docSession = S_Editor
    /\ \E j \in DOMAIN last[i].docActions :
         getTableId(last[i].docActions[j]) \in Range(tableIds)

\* The read verdict of the row with the given id as data holds it: what
\* getTableAccess gives a PermissionInfo made for the session and the row.
RowRead(st, docSession, data, rowId) ==
  getTableAccess(st, RowInput(st, docSession, data, IndexOf(data.rowIds, rowId)),
                 data.tableId).read

\* The after-snapshot of action src of the bundle that call i of `last` filtered.
AfterSnapshot(i, src) == BuildRowSnapshots(db, last[i].docActions, bundle.undo)[src][2]

\* The record actions that call i of `last` returned, as places in its result.
RecordsOut(i) ==
  {k \in DOMAIN last[i].actions : ~isSchemaAction(last[i].actions[k].action)}

\* C3 as stated: every row id in an action that filterOutgoingDocActions
\* returns has row-read verdict allow on its post-state.
C3_RowsAllowed ==
  \A i \in Filtered : \A k \in RecordsOut(i) :
    \A r \in Range(last[i].actions[k].action.rowIds) :
      RowRead(Store, last[i].docSession, AfterSnapshot(i, last[i].actions[k].src), r) = "allow"

\* C3, amended: every row id in an add- or update-shaped action that
\* filterOutgoingDocActions returns has a row-read verdict on its
\* post-state that is not deny.
C3_RowsNotDenied ==
  \A i \in Filtered : \A k \in RecordsOut(i) :
    last[i].actions[k].action.name \in AddActions \cup UpdateActions =>
      \A r \in Range(last[i].actions[k].action.rowIds) :
        RowRead(Store, last[i].docSession, AfterSnapshot(i, last[i].actions[k].src), r) # "deny"

\* A bulk update of a row-mixed table came back with fewer rows than it had.
C3_Witness ==
  \E i \in Filtered : \E k \in RecordsOut(i) :
    /\ last[i].actions[k].action.name = "BulkUpdateRecord"
    /\ last[i].actions[k].role = "revised"
    /\ Len(last[i].actions[k].action.rowIds)
         < Len(last[i].docActions[last[i].actions[k].src].rowIds)
    /\ getTableAccess(Store, GetAccess(Store, permissionInfoMap, last[i].docSession),
                      DataTable).read = "mixed"

\* The read verdict of a column for the row with the given id as data
\* holds it: what getColumnAccess gives a PermissionInfo made for the
\* session and the row.
ColumnRead(st, docSession, data, rowId, colId) ==
  getColumnAccess(st, RowInput(st, docSession, data, IndexOf(data.rowIds, rowId)),
                  data.tableId, colId).read

\* The cells that call i of `last` returned: the place of the action in the
\* result, the column and the place of the row in the action.
CellsOut(i) ==
  UNION {{<<k, colId, idx>> :
            colId \in DOMAIN last[i].actions[k].action.colValues,
            idx \in DOMAIN last[i].actions[k].action.rowIds} :
         k \in {j \in RecordsOut(i) : last[i].actions[j].action.colValues # NoColValues}}

\* The per-row read verdict of the column of a cell of CellsOut(i).
CellRead(i, cell) ==
  ColumnRead(Store, last[i].docSession, AfterSnapshot(i, last[i].actions[cell[1]].src),
             last[i].actions[cell[1]].action.rowIds[cell[3]], cell[2])

\* The value of a cell of CellsOut(i).
CellValue(i, cell) == last[i].actions[cell[1]].action.colValues[cell[2]][cell[3]]

\* C4 as stated: for every retained column on every retained row, the
\* column-read verdict with that row as record is not deny, and where it is
\* not allow the cell delivered is 'CENSORED'.
C4_CellsNotDenied ==
  \A i \in Filtered : \A cell \in CellsOut(i) :
    /\ CellRead(i, cell) # "deny"
    /\ CellRead(i, cell) # "allow" => CellValue(i, cell) = CENSORED

\* C4, amended: the column-read verdict of a retained column for the
\* session (without record) is not deny, and a cell whose column-read
\* verdict with its row as record is not allow is 'CENSORED'.
C4_CellsCensored ==
  \A i \in Filtered : \A cell \in CellsOut(i) :
    /\ getColumnAccess(Store, GetAccess(Store, permissionInfoMap, last[i].docSession),
                       getTableId(last[i].actions[cell[1]].action), cell[2]).read # "deny"
    /\ CellRead(i, cell) # "allow" => CellValue(i, cell) = CENSORED

\* An action came back with a censored cell next to one that is not.
C4_Witness ==
  \E i \in Filtered : \E c1 \in CellsOut(i), c2 \in CellsOut(i) :
    /\ c1[1] = c2[1]
    /\ CellRead(i, c1) = "deny" /\ CellValue(i, c1) = CENSORED
    /\ CellRead(i, c2) = "allow" /\ CellValue(i, c2) # CENSORED

\* C6: pruneOutgoingDocAction never modifies the action passed in: when
\* filterOutgoingDocActions is over, the actions of the bundle are what
\* they were when it was called.
C6_InputUnmodified ==
  \A i \in DOMAIN last :
    last[i].op = "filterOutgoingDocActions" => last[i].after = last[i].docActions

\* The place of a role in the plan of _pruneRows.
RoleRank(role) == CASE role = "forceAdds" -> 1 [] role = "revised" -> 2 [] role = "forceRemoves" -> 3

\* C5: in what filterOutgoingDocActions returns, the actions derived from
\* one action of the bundle are in the order synthetic bulk-add, rewritten
\* original, synthetic bulk-remove, and the actions derived from an earlier
\* action of the bundle precede those derived from a later one.
C5_OutputOrder ==
  \A i \in Filtered :
    /\ \A k \in DOMAIN last[i].actions :
         /\ last[i].actions[k].role = "forceAdds" =>
              last[i].actions[k].action.name = "BulkAddRecord"
         /\ last[i].actions[k].role = "forceRemoves" =>
              last[i].actions[k].action.name = "BulkRemoveRecord"
         /\ last[i].actions[k].role = "revised" =>
              last[i].actions[k].action.name = last[i].docActions[last[i].actions[k].src].name
    /\ \A k1 \in DOMAIN last[i].actions, k2 \in DOMAIN last[i].actions :
         k1 < k2 =>
           \/ last[i].actions[k1].src < last[i].actions[k2].src
           \/ /\ last[i].actions[k1].src = last[i].actions[k2].src
              /\ RoleRank(last[i].actions[k1].role) < RoleRank(last[i].actions[k2].role)

\* A call that waited for the snapshots returned a synthetic add and a
\* synthetic remove for the first action of the bundle, and an action for
\* the second.
C5_Witness ==
  \E i \in Filtered :
    /\ last[i].snapshots # <<>>
    /\ \E k1 \in DOMAIN last[i].actions, k2 \in DOMAIN last[i].actions,
          k3 \in DOMAIN last[i].actions :
         /\ last[i].actions[k1].src = 1 /\ last[i].actions[k1].role = "forceAdds"
         /\ last[i].actions[k2].src = 1 /\ last[i].actions[k2].role = "forceRemoves"
         /\ last[i].actions[k3].src = 2

\* C7: between beforeBroadcast and afterBroadcast the snapshot builder
\* runs at most once, exactly once if a pruning has asked for the
\* snapshots, and every call whose prunings asked for them got the value
\* the one run built.
C7_SingleFlight ==
  /\ rowSnapshots # Nil =>
       /\ rowSnapshots.runs <= 1
       /\ (rowSnapshots.state # "empty" \/ calls # <<>>) => rowSnapshots.runs = 1
  /\ \A i \in DOMAIN last :
       (last[i].op = "filterOutgoingDocActions" /\ last[i].snapshots # <<>>) =>
         /\ rowSnapshots # Nil
         /\ rowSnapshots.state = "ready"
         /\ last[i].snapshots = rowSnapshots.value

\* Two calls waited for the snapshots and returned when they were built.
C7_Witness ==
  /\ Len(last) = 2
  /\ \A i \in DOMAIN last :
       last[i].op = "filterOutgoingDocActions" /\ last[i].snapshots # <<>>
  /\ last[1].docSession # last[2].docSession

(***************************************************************************)
(* Properties of update().                                                 *)
(***************************************************************************)
RECURSIVE LoadTables(_, _)
\* The characteristic tables once _updateCharacteristicTables has gone
\* through the given user attribute rules.
LoadTables(clauses, tables) ==
  IF clauses = <<>> THEN tables
  ELSE LoadTables(Tail(clauses),
                  MapSet(tables, Head(clauses).name,
                         CharacteristicTable(Head(clauses), FetchTable(Head(clauses).tableId))))

\* The rule store as the update() that runs leaves it when it is over.
Reloaded(st) ==
  [st EXCEPT !.characteristicTables = LoadTables(st.userAttributeRules, EmptyMap)]

\* The places in `last` of the calls of hasTableAccess.
Checks == {i \in DOMAIN last : last[i].op = "hasTableAccess"}

\* C8: an access check made while update() awaits its characteristic
\* tables returns what it returns on the rule store as it was before the
\* update() or what it returns on the rule store as the update() leaves it.
C8_ReloadAtomic ==
  \A i \in Checks :
    updating \notin {Idle, Needed} =>
      \/ last[i].result = hasTableAccess(updating.before, EmptyMap,
                                         last[i].docSession, last[i].tableId)
      \/ last[i].result = hasTableAccess(Reloaded(Store), EmptyMap,
                                         last[i].docSession, last[i].tableId)

\* C9: the verdict an access check returns through the cached
\* PermissionInfo of the session is the verdict of a PermissionInfo made
\* afresh for the session on the rule store and characteristic tables as
\* they are.
C9_CacheCoherent ==
  \A i \in Checks :
    last[i].result = hasTableAccess(Store, EmptyMap, last[i].docSession, last[i].tableId)

\* C10: when update() fails with a configuration error, the rule store is
\* as it was before the call.
C10_FailedUpdateKeepsStore ==
  \A i \in DOMAIN last :
    (last[i].op = "update" /\ last[i].throws # "") => Store = last[i].before

(***************************************************************************)
(* Rule metadata with several user attribute rules.                        *)
(***************************************************************************)
\* A second rule for the attribute Team, looked up by another column.
TeamByLevel == UserAttributeRule("Team", PeopleTable, "level", "Email")
\* A rule for another attribute.
DeptAttr == UserAttributeRule("Dept", PeopleTable, "email", "Email")

\* Rule metadata in which two user attribute rules have the same name, and
\* rule metadata with two rules of different names.
DupConfigs ==
  {AclRules(<<T_Vip>>, <<TeamAttr, TeamByLevel>>),
   AclRules(<<T_Vip>>, <<TeamByLevel, TeamAttr>>),
   AclRules(<<T_RowOwn>>, <<TeamAttr, TeamAttr>>),
   AclRules(<<T_Vip>>, <<TeamAttr, DeptAttr>>)}

AttrRuleConfigs == DupConfigs \cup ReloadConfigs

InitAttrs == InitWith(AttrRuleConfigs, {st \in OwnedStores : st[DataTable].rowIds = <<1>>})

NextAttrs ==
  \/ EditRules(AttrRuleConfigs)
  \/ UpdateStart
  \/ UpdateFetched
  \/ \E s \in {S_Editor, S_Viewer} : HasTableAccess(s, DataTable)

SpecAttrs == InitAttrs /\ [][NextAttrs]_vars

\* Two of the user attribute rules have the same name.
HasDuplicateNames(userAttributes) ==
  \E i \in DOMAIN userAttributes, j \in DOMAIN userAttributes :
    i # j /\ userAttributes[i].name = userAttributes[j].name

\* C11: if the rule metadata holds two user attribute rules with the same
\* name, update() fails with an error.
C11_DuplicateNameFails ==
  \A i \in DOMAIN last :
    (last[i].op = "update" /\ HasDuplicateNames(aclRules.userAttributes)) =>
      last[i].throws # ""

(***************************************************************************)
(* filterData.                                                             *)
(***************************************************************************)
\* filterData(docSession, data): the table data as the call leaves it (it
\* is changed in place).
filterData(st, pim, docSession, data) ==
  [(IF getTableAccess(st, GetAccess(st, pim, docSession), getTableId(data)).read = "mixed"
    THEN FilterRowsAndCells(st, docSession, data, data, TRUE).action
    ELSE data)
   EXCEPT !.colValues =
     FilterColumns(@, LAMBDA colId :
       getColumnAccess(st, GetAccess(st, pim, docSession), getTableId(data), colId).read # "deny")]

\* filterData(docSession, data) on a table fetched from the store, for one
\* of the at most maxClients sessions the document has.
FilterData(docSession, tableId, maxClients) ==
  /\ updating = Idle
  /\ ~bundle.active
  /\ Cardinality(DOMAIN permissionInfoMap \cup {docSession}) <= maxClients
  /\ last' = << [op |-> "filterData", docSession |-> docSession, data |-> db[tableId],
                 result |-> filterData(Store, permissionInfoMap, docSession, db[tableId])] >>
  /\ permissionInfoMap' = CacheAccess(Store, permissionInfoMap, docSession)
  /\ UNCHANGED <<aclRules, db, ruleVars, characteristicTables, updating, callVars>>

\* Rule metadata without rules, with rules on rows, and with rules on a column.
DataConfigs ==
  {AclRules(<<>>, <<>>), AclRules(<<T_RowOwn>>, <<>>), AclRules(<<Sec_RowNot>>, <<>>),
   AclRules(<<Sec_Deny>>, <<>>), AclRules(<<Sec_Deny, T_RowNot>>, <<>>),
   AclRules(<<T_ViewerDeny>>, <<>>)}

\* The document has one client, which fetches tables and receives the bundles.
InitData == InitWith(DataConfigs, Stores)

NextData ==
  \/ UpdateStart
  \/ \E s \in Sessions, t \in {DataTable, PlainTable} : FilterData(s, t, 1)
  \/ \E docActions \in Bundles(db, 1, "any") : ApplyBundle(docActions)
  \/ BeforeBroadcast
  \/ \E s \in Sessions : FilterOutgoingDocActions(s, 1)
  \/ SnapshotsBuilt
  \/ AfterBroadcast

SpecData == InitData /\ [][NextData]_vars

\* C12: when haveRules is false, filterOutgoingDocActions returns the
\* bundle unchanged and filterData leaves the table data unchanged, for
\* every session whatever its access role.
C12_NoRulesNoFiltering ==
  \A i \in DOMAIN last :
    ~haveRules =>
      /\ last[i].op = "filterOutgoingDocActions" =>
            /\ last[i].throws = ""
            /\ [k \in DOMAIN last[i].actions |-> last[i].actions[k].action] = last[i].docActions
      /\ last[i].op = "filterData" => last[i].result = last[i].data

\* C13: pruning a bundle for a session whose access role is owners yields
\* exactly the bundle, whatever the rule metadata.
C13_OwnerRoundTrip ==
  \A i \in DOMAIN last :
    (last[i].op = "filterOutgoingDocActions" /\ last[i].docSession.access = "owners") =>
      /\ last[i].throws = ""
      /\ [k \in DOMAIN last[i].actions |-> last[i].actions[k].action] = last[i].docActions

(***************************************************************************)
(* Properties of filterMetaTables.                                         *)
(***************************************************************************)
\* The metadata as a client fetched it before column c of the plain table
\* was added.
StaleMeta ==
  [DocMeta EXCEPT
     !._grist_Tables_column = RemoveRowsAt({3}, @),
     !._grist_Views_section_field = RemoveRowsAt({3}, @)]

\* The metadata sets given to filterMetaTables.
MetaInputs == {DocMeta, StaleMeta}

\* filterMetaTables on tables, for the session of call i of `last`, with the
\* rule store and the document as they are.
MetaOnce(i, tables) ==
  filterMetaTables(Store, permissionInfoMap, last[i].docSession, DocMeta, tables)

\* The places in `last` of the calls of filterMetaTables.
MetaCalls == {i \in DOMAIN last : last[i].op = "filterMetaTables"}

\* C14: filterMetaTables is idempotent: filtering what it returned for a
\* session returns the same again, for the metadata the call was given and
\* for every other metadata set.
C14_MetaIdempotent ==
  \A i \in MetaCalls :
    /\ MetaOnce(i, last[i].result) = last[i].result
    /\ \A tables \in MetaInputs : MetaOnce(i, MetaOnce(i, tables)) = MetaOnce(i, tables)

\* A call of filterMetaTables censored a column and left the tables alone.
C14_Witness ==
  \E i \in MetaCalls :
    /\ last[i].result # last[i].tables
    /\ last[i].result._grist_Tables = last[i].tables._grist_Tables
    /\ MetaOnce(i, StaleMeta) # StaleMeta

(***************************************************************************)
(* canApplyUserAction.  A UserAction [name, ...] is a record: tableId is   *)
(* a[1] of a table-scoped record action, actions is a[1] of an             *)
(* ApplyUndoActions / ApplyDocActions wrapper.                             *)
(***************************************************************************)
ACTION_WITH_TABLE_ID ==
  {"AddRecord", "BulkAddRecord", "UpdateRecord", "BulkUpdateRecord", "RemoveRecord",
   "BulkRemoveRecord", "ReplaceTableData", "TableData"}

SPECIAL_ACTIONS ==
  {"InitNewDoc", "EvalCode", "SetDisplayFormula", "CreateViewSection",
   "UpdateSummaryViewSection", "DetachSummaryViewSection", "GenImporterView",
   "TransformAndFinishImport", "AddColumn", "RemoveColumn", "RenameColumn", "ModifyColumn",
   "AddTable", "RemoveTable", "RenameTable", "AddView", "CopyFromColumn", "AddHiddenColumn",
   "RemoveViewSection"}

SURPRISING_ACTIONS == {"RemoveView", "AddViewSection"}

OK_ACTIONS == {"Calculate", "AddEmptyTable"}

WrapperNames == {"ApplyUndoActions", "ApplyDocActions"}

UserAction(name, tableId) == [name |-> name, tableId |-> tableId, actions |-> <<>>]
Wrapper(name, actions) == [name |-> name, tableId |-> "", actions |-> actions]

\* The tables of the metadata of a document.
GristTables == DOMAIN DocMeta

\* tableId.startsWith('_grist_'), on the table names of the model.
StartsWithGrist(tableId) == tableId \in GristTables \cup {"_grist_ACLResources"}

\* hasFullAccess: the session has owner-level access to the document.
hasFullAccess(docSession) == docSession.access = "owners"

\* A hasNuancedAccess that does not look at _haveRules.
hasNuancedAccess_ignoreRules(st, docSession) == ~hasFullAccess(docSession)

\* hasNuancedAccess: there are rules and the session is no owner.
hasNuancedAccess(st, docSession) ==
  IF ~st.haveRules THEN FALSE ELSE ~hasFullAccess(docSession)

\* A test that lets every read verdict but deny through.
ReadPermitsEdit_notDeny(read) == read # "deny"

\* The test canApplyUserAction makes of the read verdict of the table.
ReadPermitsEdit(read) == read = "allow"

\* What a check gives: its result, and whether it called _getAccess (which
\* caches the PermissionInfo of the session).
Checked(result, getAccess) == [result |-> result, getAccess |-> getAccess]

\* Array.every: the checks after the first one that fails are not made.
AndThen(first, rest) ==
  IF ~first.result THEN first
  ELSE Checked(rest.result, first.getAccess \/ rest.getAccess)

RECURSIVE canApplyUserAction(_, _, _, _)

\* A canApplyUserActions that checks only the first action of the list.
canApplyUserActions_first(st, pim, docSession, actions) ==
  IF actions = <<>> THEN Checked(TRUE, FALSE)
  ELSE canApplyUserAction(st, pim, docSession, Head(actions))

RECURSIVE canApplyUserActions(_, _, _, _)
\* canApplyUserActions: every action of the list can be applied.
canApplyUserActions(st, pim, docSession, actions) ==
  IF actions = <<>> THEN Checked(TRUE, FALSE)
  ELSE AndThen(canApplyUserAction(st, pim, docSession, Head(actions)),
               canApplyUserActions(st, pim, docSession, Tail(actions)))

\* canApplyUserAction(docSession, a).
canApplyUserAction(st, pim, docSession, a) ==
  IF a.name \in OK_ACTIONS THEN Checked(TRUE, FALSE)
  ELSE IF a.name \in SPECIAL_ACTIONS THEN Checked(~hasNuancedAccess(st, docSession), FALSE)
  ELSE IF a.name \in SURPRISING_ACTIONS THEN Checked(hasFullAccess(docSession), FALSE)
  ELSE IF a.name \in WrapperNames THEN canApplyUserActions(st, pim, docSession, a.actions)
  ELSE IF a.name \in ACTION_WITH_TABLE_ID THEN
    IF StartsWithGrist(a.tableId) THEN Checked(~hasNuancedAccess(st, docSession), FALSE)
    ELSE Checked(ReadPermitsEdit(getTableAccess(st, GetAccess(st, pim, docSession),
                                                a.tableId).read), TRUE)
  ELSE Checked(FALSE, FALSE)

(***************************************************************************)
(* filterActionGroup.                                                      *)
(***************************************************************************)
\* createEmptyActionSummary().
EmptyActionSummary == [tableRenames |-> <<>>, tableDeltas |-> EmptyMap]

\* allowActionGroup: the session can read everything.
allowActionGroup(st, pim, docSession, actionGroup) == canReadEverything(st, pim, docSession)

\* A filterActionGroup with the check negated.
filterActionGroup_negated(st, pim, docSession, actionGroup) ==
  IF allowActionGroup(st, pim, docSession, actionGroup) THEN actionGroup
  ELSE [actionGroup EXCEPT !.actionSummary = EmptyActionSummary, !.desc = ""]

\* filterActionGroup(docSession, actionGroup).
filterActionGroup(st, pim, docSession, actionGroup) ==
  IF ~allowActionGroup(st, pim, docSession, actionGroup) THEN actionGroup
  ELSE [actionGroup EXCEPT !.actionSummary = EmptyActionSummary, !.desc = ""]

(***************************************************************************)
(* Access checks on user actions, action groups and rule sets: the inputs  *)
(* of the model, the calls, and their specification.                       *)
(***************************************************************************)
\* User actions that are no wrappers: one or two of each set, on the data
\* table, the plain table, a table of the metadata, and a table whose name
\* holds _grist_ but does not start with it; AddVisibleColumn is in no set.
LeafActions ==
  {UserAction("Calculate", ""), UserAction("EvalCode", ""), UserAction("AddColumn", DataTable),
   UserAction("RemoveView", ""), UserAction("UpdateRecord", DataTable),
   UserAction("BulkAddRecord", DataTable), UserAction("UpdateRecord", PlainTable),
   UserAction("RemoveRecord", "_grist_Tables"), UserAction("TableData", "T_grist_"),
   UserAction("AddVisibleColumn", DataTable)}

\* The actions the wrappers of the model are made of.
KeyLeaves ==
  {UserAction("Calculate", ""), UserAction("UpdateRecord", DataTable),
   UserAction("AddVisibleColumn", DataTable)}

RECURSIVE ListsUpTo(_, _)
\* The lists of at most n elements of S.
ListsUpTo(S, n) ==
  IF n = 0 THEN {<<>>}
  ELSE {<<>>} \cup {<<x>> \o l : x \in S, l \in ListsUpTo(S, n - 1)}

\* Wrappers of leaves, and wrappers of a wrapper and a leaf.
WrapperActions ==
  {Wrapper(n, l) : n \in WrapperNames, l \in ListsUpTo(KeyLeaves, MaxWrapped)}
  \cup {Wrapper("ApplyUndoActions", <<Wrapper("ApplyDocActions", <<x>>), y>>) :
          x \in KeyLeaves, y \in KeyLeaves}

UserActions == LeafActions \cup WrapperActions

ActionGroup(desc, actionSummary) ==
  [actionNum |-> 1, desc |-> desc, actionSummary |-> actionSummary, fromSelf |-> FALSE]

ActionGroups ==
  {ActionGroup("added a row", [tableRenames |-> <<>>, tableDeltas |-> [T |-> "row 1 added"]]),
   ActionGroup("", EmptyActionSummary)}

\* A rule set with a rule whose formula fails, ahead of rules that decide by row.
T_Boom ==
  RuleSet(DataTable, Star,
          << Rule(F_Boom, "-R"), Rule(F_RecOwnerIsUser, "+R"), Rule(F_True, "-R") >>,
          NoPermissions)

\* Rule metadata that gives the data table every read verdict for some
\* session, and rule metadata with formulas that fail (T_Vip: the user has
\* no attribute Team).
AccessConfigs ==
  {AclRules(<<>>, <<>>), AclRules(<<T_RowOwn>>, <<>>), AclRules(<<Sec_Deny>>, <<>>),
   AclRules(<<T_ViewerDeny>>, <<>>), AclRules(<<Owner_Deny>>, <<>>),
   AclRules(<<Doc_OwnerDeny>>, <<>>), AclRules(<<T_Boom>>, <<>>), AclRules(<<T_Vip>>, <<>>)}

\* canApplyUserAction(docSession, a), for one of the at most maxClients
\* sessions the document has.
CanApplyUserAction(docSession, a, maxClients) ==
  /\ Cardinality(DOMAIN permissionInfoMap \cup {docSession}) <= maxClients
  /\ last' = << [op |-> "canApplyUserAction", docSession |-> docSession, a |-> a,
                 result |-> canApplyUserAction(Store, permissionInfoMap, docSession, a).result] >>
  /\ permissionInfoMap' =
       IF canApplyUserAction(Store, permissionInfoMap, docSession, a).getAccess
       THEN CacheAccess(Store, permissionInfoMap, docSession) ELSE permissionInfoMap
  /\ UNCHANGED <<aclRules, db, ruleVars, characteristicTables, updating, callVars>>

\* filterActionGroup(docSession, actionGroup).
FilterActionGroup(docSession, actionGroup, maxClients) ==
  /\ Cardinality(DOMAIN permissionInfoMap \cup {docSession}) <= maxClients
  /\ last' = << [op |-> "filterActionGroup", docSession |-> docSession,
                 actionGroup |-> actionGroup,
                 result |-> filterActionGroup(Store, permissionInfoMap, docSession,
                                              actionGroup)] >>
  /\ permissionInfoMap' = CacheAccess(Store, permissionInfoMap, docSession)
  /\ UNCHANGED <<aclRules, db, ruleVars, characteristicTables, updating, callVars>>

\* The inputs an evaluator is made for: the user of a session, without a
\* record or with the first row of a table as the record.
MatchInputs ==
  {[user |-> GetUser(Store, s), rec |-> r] :
     s \in Sessions,
     r \in {NoRec} \cup {RecordView(db[t], 1) : t \in {DataTable, PlainTable}}}

\* evaluateRule(ruleSet, input) on a rule set of the rule store.
EvaluateRule(ruleSet, input) ==
  /\ last' = << [op |-> "evaluateRule", ruleSet |-> ruleSet, input |-> input,
                 result |-> evaluateRule(ruleSet, input)] >>
  /\ UNCHANGED <<aclRules, db, storeVars, updating, callVars>>

\* The rule sets the rule store holds.
StoredRuleSets ==
  {defaultRuleSet} \cup Range(tableRuleSets) \cup UNION {Range(l) : l \in Range(columnRuleSets)}

InitAccess == InitWith(AccessConfigs, {st \in OwnedStores : st[DataTable].rowIds = <<1>>})

\* The document has one client, which makes the checks.
NextAccess ==
  \/ UpdateStart
  \/ \E s \in Sessions, a \in UserActions : CanApplyUserAction(s, a, 1)
  \/ \E s \in Sessions, g \in ActionGroups : FilterActionGroup(s, g, 1)
  \/ \E s \in Sessions :
       /\ DOMAIN permissionInfoMap \subseteq {s}
       /\ HasTableAccess(s, DataTable)
  \/ \E ruleSet \in StoredRuleSets, input \in MatchInputs : EvaluateRule(ruleSet, input)

SpecAccess == InitAccess /\ [][NextAccess]_vars

(***************************************************************************)
(* Properties of canApplyUserAction and filterActionGroup.                 *)
(***************************************************************************)
\* The places in `last` of the calls of canApplyUserAction.
ApplyChecks == {i \in DOMAIN last : last[i].op = "canApplyUserAction"}

\* The read verdict of a table for the session of call i of `last`.
TableReadOf(i, tableId) ==
  getTableAccess(Store, GetAccess(Store, permissionInfoMap, last[i].docSession), tableId).read

\* Call i of `last` is about a record action on a table that is not a
\* table of the metadata.
OnUserTable(i) ==
  /\ last[i].a.name \in ACTION_WITH_TABLE_ID
  /\ ~StartsWithGrist(last[i].a.tableId)

\* C15: for a table-scoped record action on a table whose name does not
\* start with _grist_, canApplyUserAction is true if and only if the read
\* verdict of the table for the session is allow.
C15_RecordActionNeedsAllow ==
  \A i \in ApplyChecks :
    OnUserTable(i) => (last[i].result <=> TableReadOf(i, last[i].a.tableId) = "allow")

\* A record action on a table whose read depends on the row was refused.
C15_Witness ==
  \E i \in ApplyChecks :
    /\ OnUserTable(i)
    /\ TableReadOf(i, last[i].a.tableId) = "mixed"
    /\ ~last[i].result

\* Call i of `last` is about a special action or a record action on a
\* table of the metadata.
OnSpecial(i) ==
  \/ last[i].a.name \in SPECIAL_ACTIONS
  \/ last[i].a.name \in ACTION_WITH_TABLE_ID /\ StartsWithGrist(last[i].a.tableId)

KnownNames ==
  OK_ACTIONS \cup SPECIAL_ACTIONS \cup SURPRISING_ACTIONS \cup ACTION_WITH_TABLE_ID
  \cup WrapperNames

RECURSIVE Contained(_)
\* The actions a user action contains that are no wrappers.
Contained(a) ==
  IF a.name \in WrapperNames THEN UNION {Contained(a.actions[k]) : k \in DOMAIN a.actions}
  ELSE {a}

\* canApplyUserAction for the session of call i of `last` and action a.
PermittedTo(i, a) ==
  canApplyUserAction(Store, permissionInfoMap, last[i].docSession, a).result

\* C17: canApplyUserAction is false for an action whose name is in none of
\* the sets and is no wrapper, and a wrapper is permitted exactly when
\* every action it contains, at any depth, is permitted.
C17_DefaultDeny ==
  \A i \in ApplyChecks :
    /\ last[i].a.name \notin KnownNames => ~last[i].result
    /\ last[i].a.name \in WrapperNames =>
         (last[i].result <=> \A x \in Contained(last[i].a) : PermittedTo(i, x))

\* An owner of a document without rules was refused a wrapper of a
\* permitted wrapper and an action that is in no set.
C17_Witness ==
  \E i \in ApplyChecks :
    /\ last[i].a.name \in WrapperNames
    /\ Len(last[i].a.actions) = 2
    /\ last[i].a.actions[1].name \in WrapperNames
    /\ PermittedTo(i, last[i].a.actions[1])
    /\ last[i].a.actions[2].name \notin KnownNames
    /\ last[i].docSession = S_Owner
    /\ ~haveRules
    /\ ~last[i].result

\* The places in `last` of the calls of filterActionGroup.
GroupCalls == {i \in DOMAIN last : last[i].op = "filterActionGroup"}

PartialConfigs ==
  {AclRules(<<Sec_OwnerSees>>, <<>>), AclRules(<<T_RowOwn>>, <<>>),
   AclRules(<<Sec_Deny>>, <<>>), AclRules(<<>>, <<>>)}

InitPartial == InitWith(PartialConfigs, {st \in OwnedStores : st[DataTable].rowIds # <<>>})

NextPartial ==
  \/ UpdateStart
  \/ \E docActions \in Bundles(db, MaxBundle, "column") : ApplyBundle(docActions)
  \/ BeforeBroadcast
  \/ \E s \in Sessions : FilterOutgoingDocActions(s, 2)
  \/ SnapshotsBuilt
  \/ AfterBroadcast

SpecPartial == InitPartial /\ [][NextPartial]_vars

\* The places in `last` of the calls of filterOutgoingDocActions.
FilterCalls == {i \in DOMAIN last : last[i].op = "filterOutgoingDocActions"}

\* Pruning the action for the session raises NEED_RELOAD: the read of its
\* table is neither deny nor allow, and _pruneColumns meets a column action
\* on a column whose read is not denied.
RaisesReload(docSession, a) ==
  /\ getTableAccess(Store, GetAccess(Store, permissionInfoMap, docSession),
                    getTableId(a)).read \in {"mixedColumns", "mixed"}
  /\ a.name \in ColumnActions
  /\ getColumnAccess(Store, GetAccess(Store, permissionInfoMap, docSession),
                     getTableId(a), a.colId).read # "deny"

\* Pruning one of the actions for the session raises NEED_RELOAD.
NeedsReload(docSession, docActions) ==
  \E k \in DOMAIN docActions : RaisesReload(docSession, docActions[k])

\* What filterOutgoingDocActions gives the session for the bundle as it was
\* applied when no other session is served, the rule store being st.
ServedAloneWith(st, docSession) ==
  FilterResult(
    ResumeCall(st,
               StartCall(st, permissionInfoMap, docSession, bundle.applied, rowSnapshots),
               bundle.applied,
               BuildRowSnapshots(db, bundle.applied, bundle.undo)).call,
    bundle.applied)

ServedAlone(docSession) == ServedAloneWith(Store, docSession)

\* When pruning an action of the bundle raises NEED_RELOAD for the session,
\* its filterOutgoingDocActions fails with NEED_RELOAD and returns no action.
C19_ReloadFailsWhole ==
  \A i \in FilterCalls :
    NeedsReload(last[i].docSession, last[i].docActions) =>
      last[i].throws = "NEED_RELOAD" /\ last[i].actions = <<>>

\* C19: if pruning an action of the bundle raises NEED_RELOAD for a
\* session, its filterOutgoingDocActions fails with NEED_RELOAD and returns
\* none of the actions, and what filterOutgoingDocActions gives the other
\* sessions for the bundle is what it gives them when they are served alone.
C19_ReloadIsolated ==
  /\ C19_ReloadFailsWhole
  /\ \A i \in FilterCalls :
       (\E s \in bundle.served \ {last[i].docSession} : NeedsReload(s, bundle.applied)) =>
         /\ last[i].throws = ServedAlone(last[i].docSession).throws
         /\ last[i].actions = ServedAlone(last[i].docSession).actions

(***************************************************************************)
(* Rules whose formula fails: rule sets are evaluated, tables checked and  *)
(* bundles filtered for one client under rule metadata with such rules.    *)
(***************************************************************************)
FailingConfigs ==
  {AclRules(<<T_Boom>>, <<>>), AclRules(<<T_Vip>>, <<>>), AclRules(<<T_RowOwn>>, <<>>),
   AclRules(<<Sec_Deny, T_Boom>>, <<>>)}

InitFailing == InitWith(FailingConfigs, {st \in OwnedStores : st[DataTable].rowIds # <<>>})

NextFailing ==
  \/ UpdateStart
  \/ \E ruleSet \in StoredRuleSets, input \in MatchInputs : EvaluateRule(ruleSet, input)
  \/ \E s \in Sessions :
       /\ DOMAIN permissionInfoMap \subseteq {s}
       /\ HasTableAccess(s, DataTable)
  \/ \E docActions \in Bundles(db, 1, "column") : ApplyBundle(docActions)
  \/ BeforeBroadcast
  \/ \E s \in Sessions : FilterOutgoingDocActions(s, 1)
  \/ SnapshotsBuilt
  \/ AfterBroadcast

SpecFailing == InitFailing /\ [][NextFailing]_vars

\* The formula of the rule throws an error other than NEED_ROW_DATA for the input.
Fails(rule, input) == matchFunc(rule.aclFormula, input) = "error"

\* The rule set without the rules whose formula fails for the input.
WithoutFailing(ruleSet, input) ==
  [ruleSet EXCEPT !.body = SelectSeq(@, LAMBDA rule : ~Fails(rule, input))]

\* The rule set without the rules whose formula fails for every input.
WithoutBroken(ruleSet) ==
  [ruleSet EXCEPT !.body =
     SelectSeq(@, LAMBDA rule : ~ \A input \in MatchInputs : Fails(rule, input))]

\* The rule store with WithoutBroken for each of its rule sets.
StoreWithoutBroken ==
  [Store EXCEPT
     !.columnRuleSets = [t \in DOMAIN @ |-> [i \in DOMAIN @[t] |-> WithoutBroken(@[t][i])]],
     !.tableColumnMap = [k \in DOMAIN @ |-> WithoutBroken(@[k])],
     !.tableRuleSets = [t \in DOMAIN @ |-> WithoutBroken(@[t])],
     !.defaultRuleSet = WithoutBroken(@)]

\* The exceptions the pruning of an action throws.
PruningErrors == {"NEED_RELOAD", "Actions not available", "Unexpected row removal"}

\* C20: evaluateRule returns a permission set, the one it returns for the
\* rule set without the rules whose formula throws an error other than
\* NEED_ROW_DATA for the input; and hasTableAccess and
\* filterOutgoingDocActions end as they end when the rule store holds no
\* rule whose formula fails.
C20_FailingRuleSkipped ==
  \A i \in DOMAIN last :
    /\ last[i].op = "evaluateRule" =>
         /\ last[i].result \in [DOMAIN emptyPermissionSet -> PartialValues]
         /\ last[i].result = evaluateRule(WithoutFailing(last[i].ruleSet, last[i].input),
                                          last[i].input)
    /\ last[i].op = "hasTableAccess" =>
         last[i].result = hasTableAccess(StoreWithoutBroken, permissionInfoMap,
                                         last[i].docSession, last[i].tableId)
    /\ last[i].op = "filterOutgoingDocActions" =>
         /\ last[i].throws \in PruningErrors \cup {""}
         /\ last[i].throws = ServedAloneWith(StoreWithoutBroken, last[i].docSession).throws
         /\ last[i].actions = ServedAloneWith(StoreWithoutBroken, last[i].docSession).actions

\* A rule set was evaluated whose first rule fails, and a rule after it
\* gave the verdict.
C20_Witness ==
  \E i \in DOMAIN last :
    /\ last[i].op = "evaluateRule"
    /\ Fails(Head(last[i].ruleSet.body), last[i].input)
    /\ last[i].result.read = "allow"
    /\ last[i].result # evaluateRule([last[i].ruleSet EXCEPT !.body = <<>>], last[i].input)

\* A bundle was filtered by rows under a rule set with a rule that fails.
FilteredUnderFailing ==
  \E i \in DOMAIN last :
    /\ last[i].op = "filterOutgoingDocActions"
    /\ \E t \in DOMAIN tableRuleSets : tableRuleSets[t] # WithoutBroken(tableRuleSets[t])
    /\ last[i].snapshots # <<>>
    /\ last[i].actions # <<>>

(***************************************************************************)
(* The permission lattice on its own: permission sets are merged three at  *)
(* a time, in both groupings.                                              *)
(***************************************************************************)
\* Permission sets with any value for read and any value for the other bits.
PermissionSets == {[b \in Bits |-> IF b = "read" THEN x ELSE y] : x, y \in PartialValues}

\* mergePartialPermissions on three permission sets, grouped to the left
\* and to the right, and _processRule's toMixed of a merged with the empty
\* set; each behaviour merges one triple.
MergeThree(a, b, c) ==
  /\ last = <<>>
  /\ last' = << [op |-> "merge", a |-> a, b |-> b, c |-> c,
                 left |-> mergePartialPermissions(mergePartialPermissions(a, b), c),
                 right |-> mergePartialPermissions(a, mergePartialPermissions(b, c)),
                 withEmpty |-> toMixed(mergePartialPermissions(a, emptyPermissionSet))] >>
  /\ UNCHANGED <<aclRules, db, storeVars, updating, callVars>>

InitMerge == InitWith({AclRules(<<>>, <<>>)}, {st \in OwnedStores : st[DataTable].rowIds = <<>>})

\* Every triple of values is met on the read bit.
NextMerge ==
  \E a, b \in PermissionSets, c \in {p \in PermissionSets : p.read = p.update} :
    MergeThree(a, b, c)

SpecMerge == InitMerge /\ [][NextMerge]_vars

SnapshotBefore(src) == BuildRowSnapshots(db, bundle.applied, bundle.undo)[src][1]
SnapshotAfter(src) == BuildRowSnapshots(db, bundle.applied, bundle.undo)[src][2]

\* The ids of the rows of data whose read is not denied to the session.
ReadableRows(docSession, data) ==
  {id \in Range(data.rowIds) : RowRead(Store, docSession, data, id) # "deny"}

\* The ids of the rows of action src of the bundle whose read is denied to
\* the session before the action, and after it.
ForbiddenBefore(docSession, src) ==
  {id \in Range(bundle.applied[src].rowIds) \cap Range(SnapshotBefore(src).rowIds) :
     RowRead(Store, docSession, SnapshotBefore(src), id) = "deny"}
ForbiddenAfter(docSession, src) ==
  {id \in Range(bundle.applied[src].rowIds) \cap Range(SnapshotAfter(src).rowIds) :
     RowRead(Store, docSession, SnapshotAfter(src), id) = "deny"}

\* Action src of the bundle is a record action on a table whose read is
\* mixed for the session.
RowMixed(docSession, src) ==
  /\ ~isSchemaAction(bundle.applied[src])
  /\ getTableAccess(Store, GetAccess(Store, permissionInfoMap, docSession),
                    getTableId(bundle.applied[src])).read = "mixed"

\* The actions that call i of `last` returned for action src of the bundle.
Emitted(i, src) ==
  LET from == SelectSeq(last[i].actions, LAMBDA r : r.src = src)
  IN [k \in DOMAIN from |-> from[k].action]

\* A client that holds the rows `held` receives the action: the rows it
\* holds afterwards, and whether the action fits what it held (it adds
\* rows not held, and updates and removes rows held).
ClientReceives(view, a) ==
  IF a.name \in AddActions
  THEN [held |-> view.held \cup Range(a.rowIds),
        ok |-> view.ok /\ Range(a.rowIds) \cap view.held = {}]
  ELSE IF a.name \in UpdateActions
  THEN [held |-> view.held, ok |-> view.ok /\ Range(a.rowIds) \subseteq view.held]
  ELSE IF a.name \in RemoveActions
  THEN [held |-> view.held \ Range(a.rowIds),
        ok |-> view.ok /\ Range(a.rowIds) \subseteq view.held]
  ELSE view

RECURSIVE ClientView(_, _)
\* The client after it received the actions in order.
ClientView(view, actions) ==
  IF actions = <<>> THEN view
  ELSE ClientView(ClientReceives(view, Head(actions)), Tail(actions))

\* The client of call i of `last` after the actions emitted for action src,
\* if it held the readable rows of the before-snapshot.
ClientAfter(i, src) ==
  ClientView([held |-> ReadableRows(last[i].docSession, SnapshotBefore(src)), ok |-> TRUE],
             Emitted(i, src))

\* C22: for a record action on a table whose read is mixed for the
\* session, a client that holds the readable rows of the before-snapshot
\* and applies the actions emitted holds the readable rows of the
\* after-snapshot, and no action emitted updates or removes a row it does
\* not hold or adds a row it holds.
C22_ClientViewConsistent ==
  \A i \in Filtered : \A src \in DOMAIN bundle.applied :
    RowMixed(last[i].docSession, src) =>
      /\ ClientAfter(i, src).ok
      /\ ClientAfter(i, src).held = ReadableRows(last[i].docSession, SnapshotAfter(src))

\* The ids of the rows of action src of the bundle whose read is denied to
\* the session both before and after the action.
ForbiddenBoth(docSession, src) ==
  ForbiddenBefore(docSession, src) \cap ForbiddenAfter(docSession, src)

\* The places in the result of call i of `last` of what is left of action
\* src of the bundle itself.
Rewritten(i, src) ==
  {k \in DOMAIN last[i].actions :
     last[i].actions[k].src = src /\ last[i].actions[k].role = "revised"}

\* C23: for a record action on a table whose read is mixed for the
\* session and the rows of it whose read is denied before and after the
\* action, the call returns its list of actions, what is left of the action
\* holds none of these rows at any position, and nothing is left of the
\* action if these are all its rows.
C23_ForbiddenRowsStripped ==
  \A i \in FilterCalls : \A src \in DOMAIN bundle.applied :
    (RowMixed(last[i].docSession, src) /\ ForbiddenBoth(last[i].docSession, src) # {}) =>
      /\ last[i].throws = ""
      /\ \A k \in Rewritten(i, src) :
           Range(last[i].actions[k].action.rowIds) \cap ForbiddenBoth(last[i].docSession, src) = {}
      /\ Range(bundle.applied[src].rowIds) \subseteq ForbiddenBoth(last[i].docSession, src) =>
           Rewritten(i, src) = {}

\* The ids of the rows of action src of the bundle whose read was denied to
\* the session before the action and is not denied after it.
GainedRows(docSession, src) ==
  ForbiddenBefore(docSession, src) \ ForbiddenAfter(docSession, src)

\* The places in the result of call i of `last` of the synthetic bulk-adds
\* made for action src of the bundle.
SyntheticAdds(i, src) ==
  {k \in DOMAIN last[i].actions :
     last[i].actions[k].src = src /\ last[i].actions[k].role = "forceAdds"}

\* The columns of the after-snapshot of action src whose read is not denied
\* to the session, which are those _pruneColumns keeps.
ReadableColumns(docSession, src) ==
  {c \in DOMAIN SnapshotAfter(src).colValues :
     getColumnAccess(Store, GetAccess(Store, permissionInfoMap, docSession),
                     SnapshotAfter(src).tableId, c).read # "deny"}

\* Every row of the action carries every column of the after-snapshot whose
\* read is not denied to the session, each cell with its value there or the
\* censored sentinel.
CarriesPostState(docSession, a, src) ==
  /\ DOMAIN a.colValues = ReadableColumns(docSession, src)
  /\ \A p \in DOMAIN a.rowIds :
       \E q \in DOMAIN SnapshotAfter(src).rowIds :
         /\ SnapshotAfter(src).rowIds[q] = a.rowIds[p]
         /\ \A c \in DOMAIN a.colValues :
              a.colValues[c][p] \in {SnapshotAfter(src).colValues[c][q], CENSORED}

\* Action src of the bundle is an update of records of a table whose read is
\* mixed for the session.
UpdateOnRowMixed(docSession, src) ==
  RowMixed(docSession, src) /\ bundle.applied[src].name \in UpdateActions

\* C24: for an update of records of a table whose read is mixed for the
\* session, a synthetic BulkAddRecord is returned exactly if some row of the
\* update went from denied before to not denied after (and the session may
\* read some column of the table); its rows are exactly
\* these rows, each with all the columns of the after-snapshot that the
\* session may read, and none of these rows is in what is left of the update.
C24_SyntheticAddExact ==
  \A i \in Filtered : \A src \in DOMAIN bundle.applied :
    UpdateOnRowMixed(last[i].docSession, src) =>
      /\ (SyntheticAdds(i, src) # {}) =
           (GainedRows(last[i].docSession, src) # {} /\ ReadableColumns(last[i].docSession, src) # {})
      /\ \A k \in SyntheticAdds(i, src) :
           /\ last[i].actions[k].action.name = "BulkAddRecord"
           /\ Range(last[i].actions[k].action.rowIds) = GainedRows(last[i].docSession, src)
           /\ CarriesPostState(last[i].docSession, last[i].actions[k].action, src)
      /\ \A k \in Rewritten(i, src) :
           Range(last[i].actions[k].action.rowIds) \cap GainedRows(last[i].docSession, src) = {}

(***************************************************************************)
(* Bundles of one action, a change of a cell or a column action on a      *)
(* column of the data table, under rules on the rows and on column sec.   *)
(***************************************************************************)
ColumnConfigs ==
  {AclRules(c \o t, <<>>) : c \in Opt({Sec_Deny}), t \in Opt({T_RowOwn, T_Deny})}

InitColumns == InitWith(ColumnConfigs, {st \in OwnedStores : st[DataTable].rowIds = <<1>>})

NextColumns ==
  \/ UpdateStart
  \/ \E docActions \in Bundles(db, 1, "schema") : ApplyBundle(docActions)
  \/ BeforeBroadcast
  \/ \E s \in Sessions : FilterOutgoingDocActions(s, 1)
  \/ SnapshotsBuilt
  \/ AfterBroadcast

SpecColumns == InitColumns /\ [][NextColumns]_vars

\* The read of the table of action src of the bundle for the session, and
\* the read of the column that the action names.
TableReadAt(docSession, src) ==
  getTableAccess(Store, GetAccess(Store, permissionInfoMap, docSession),
                 getTableId(bundle.applied[src])).read
ColumnReadAt(docSession, src) ==
  getColumnAccess(Store, GetAccess(Store, permissionInfoMap, docSession),
                  getTableId(bundle.applied[src]), bundle.applied[src].colId).read

\* C25: for a column action (AddColumn, RemoveColumn, RenameColumn,
\* ModifyColumn) of a bundle of one action: if the read of its table is
\* mixed for the session, filterOutgoingDocActions returns no action when
\* the read of the column is denied and fails with NEED_RELOAD otherwise, so
\* that the action is not delivered; and if the read of the table is allow
\* or deny, NEED_RELOAD is not raised.
C25_ColumnActionOnRowMixed ==
  \A i \in FilterCalls : \A src \in DOMAIN bundle.applied :
    (Len(bundle.applied) = 1 /\ bundle.applied[src].name \in ColumnActions) =>
      /\ TableReadAt(last[i].docSession, src) = "mixed" =>
           /\ last[i].actions = <<>>
           /\ last[i].throws =
                IF ColumnReadAt(last[i].docSession, src) = "deny" THEN "" ELSE "NEED_RELOAD"
      /\ TableReadAt(last[i].docSession, src) \in {"allow", "deny"} =>
           last[i].throws # "NEED_RELOAD"

\* A session for which the read of the table is mixed was refused a
\* RenameColumn of a column it may read with NEED_RELOAD.
C25_Witness ==
  \E i \in FilterCalls :
    /\ Len(bundle.applied) = 1
    /\ bundle.applied[1].name = "RenameColumn"
    /\ TableReadAt(last[i].docSession, 1) = "mixed"
    /\ ColumnReadAt(last[i].docSession, 1) # "deny"
    /\ last[i].throws = "NEED_RELOAD"

\* A session for which the read of the table is mixed got nothing for an
\* AddColumn of a column whose read is denied to it.
ColumnActionDropped ==
  \E i \in FilterCalls :
    /\ Len(bundle.applied) = 1
    /\ bundle.applied[1].name = "AddColumn"
    /\ TableReadAt(last[i].docSession, 1) = "mixed"
    /\ ColumnReadAt(last[i].docSession, 1) = "deny"
    /\ last[i].throws = "" /\ last[i].actions = <<>>

(***************************************************************************)
(* filterMetaTables under rules that let a session read one column of a   *)
(* table and deny it the others by the default of the table.               *)
(***************************************************************************)
\* "T:sec" rule set that lets everyone read the column.
Sec_Allow == RuleSet(DataTable, <<"sec">>, << Rule(F_True, "+R") >>, NoPermissions)

MetaColumnConfigs ==
  {AclRules(<<Sec_Allow, T_Deny>>, <<>>), AclRules(<<Sec_OwnerSees, T_Deny>>, <<>>),
   AclRules(<<Sec_Deny, T_RowOwn>>, <<>>), AclRules(<<Sec_Deny>>, <<>>),
   AclRules(<<Owner_Deny, T_Deny>>, <<>>), AclRules(<<Doc_OwnerDeny, T_RowOwn>>, <<>>)}

InitMetaColumns ==
  InitWith(MetaColumnConfigs, {st \in OwnedStores : st[DataTable].rowIds = <<1>>})

SpecMetaColumns == InitMetaColumns /\ [][NextMeta]_vars

\* The places in _grist_Tables_column of the columns of a table.
ColumnRowsOf(tables, tableId) ==
  {j \in GetRecords(tables._grist_Tables_column) :
     /\ FindRow(tables._grist_Tables, "tableId", tableId) # 0
     /\ tables._grist_Tables_column.colValues.parentId[j] =
          FindRow(tables._grist_Tables, "tableId", tableId)}

\* The row at place j of _grist_Tables_column is censored.
ColumnRowCensored(tables, j) ==
  /\ tables._grist_Tables_column.colValues.label[j] = ""
  /\ tables._grist_Tables_column.colValues.colId[j] = ""
  /\ tables._grist_Tables_column.colValues.formula[j] = ""
  /\ tables._grist_Tables_column.colValues.widgetOptions[j] = ""
  /\ tables._grist_Tables_column.colValues.type[j] = "Any"
  /\ tables._grist_Tables_column.colValues.parentId[j] = 0

\* The places in _grist_Tables_column of the columns of the tables in rules
\* whose read is denied to the session.
ForbiddenColumnRows(docSession, tables) ==
  UNION {{j \in ColumnRowsOf(tables, t) :
            getColumnAccess(Store, GetAccess(Store, permissionInfoMap, docSession), t,
                            tables._grist_Tables_column.colValues.colId[j]).read = "deny"} :
         t \in Range(tableIds)}

\* C26: in what filterMetaTables returns, the row of _grist_Tables_column
\* of every column of a table in rules whose read is denied to the session
\* is censored: label, colId, formula and widgetOptions blank, type 'Any',
\* parentId 0.
C26_ForbiddenColumnsCensored ==
  \A i \in MetaCalls :
    \A j \in ForbiddenColumnRows(last[i].docSession, last[i].tables) :
      ColumnRowCensored(last[i].result, j)

\* The ids of the rows that filterMetaTables censors for the session of
\* call i of `last`, by metadata table.
CensoredIdsOf(i) ==
  LET ids == CensoredIds(DocMeta,
                         CensoredTables(Store, GetAccess(Store, permissionInfoMap, last[i].docSession), DocMeta),
                         CensoredColumnCodes(Store, GetAccess(Store, permissionInfoMap, last[i].docSession), DocMeta))
  IN [_grist_Tables |-> ids.tables, _grist_Views |-> ids.views,
      _grist_Views_section |-> ids.sections, _grist_Tables_column |-> ids.columns,
      _grist_Views_section_field |-> ids.fields]

\* out has the tables, the row ids in their order and the columns of
\* tables, and differs from it only in cells of rows with the given ids.
SameShape(tables, out, ids) ==
  /\ DOMAIN out = DOMAIN tables
  /\ \A n \in DOMAIN tables :
       /\ out[n].name = tables[n].name
       /\ out[n].tableId = tables[n].tableId
       /\ out[n].rowIds = tables[n].rowIds
       /\ DOMAIN out[n].colValues = DOMAIN tables[n].colValues
       /\ \A c \in DOMAIN tables[n].colValues :
            /\ DOMAIN out[n].colValues[c] = DOMAIN tables[n].colValues[c]
            /\ \A idx \in DOMAIN tables[n].colValues[c] :
                 out[n].colValues[c][idx] # tables[n].colValues[c][idx] =>
                   tables[n].rowIds[idx] \in ids[n]

\* C27: what filterMetaTables returns, for the metadata the call was given
\* and for every other metadata set, has the tables, the row ids in their
\* order and the columns of its input and differs from it only in cells of
\* censored rows; and the object given to the call is as it was.
C27_MetaShapePreserved ==
  \A i \in MetaCalls :
    /\ SameShape(last[i].tables, last[i].result, CensoredIdsOf(i))
    /\ \A tables \in MetaInputs : SameShape(tables, MetaOnce(i, tables), CensoredIdsOf(i))
    /\ last[i].after = last[i].tables

\* A call of filterMetaTables censored rows of the columns and of the
\* tables, and left the object it was given as it was.
C27_Witness ==
  \E i \in MetaCalls :
    /\ last[i].result._grist_Tables_column # last[i].tables._grist_Tables_column
    /\ last[i].result._grist_Tables # last[i].tables._grist_Tables
    /\ last[i].after = last[i].tables

(***************************************************************************)
(* The rule metadata, with or without a '*:*' rule set, is edited and     *)
(* loaded again and again while sessions ask for access to tables.        *)
(***************************************************************************)
\* "*:*" rule sets written by a user: the read denied by row, and viewers
\* let to update.
Doc_RecDeny == RuleSet("*", Star, << Rule(F_RecOwnerNotUser, "-R") >>, NoPermissions)
Doc_ViewerEdit == RuleSet("*", Star, << Rule(F_IsViewer, "+U") >>, NoPermissions)

DefaultConfigs ==
  {AclRules(<<>>, <<>>), AclRules(<<T_RowOwn>>, <<>>), AclRules(<<Doc_OwnerDeny>>, <<>>),
   AclRules(<<Doc_OwnerDeny, T_RowOwn>>, <<>>), AclRules(<<Sec_Deny, Doc_RecDeny>>, <<>>),
   AclRules(<<Doc_ViewerEdit>>, <<TeamAttr>>), AclRules(<<T_RowOwn, Bad_StarCols>>, <<>>)}

InitDefaults == InitWith(DefaultConfigs, {st \in OwnedStores : st[DataTable].rowIds = <<1>>})

NextDefaults ==
  \/ EditRules(DefaultConfigs)
  \/ UpdateStart
  \/ UpdateFetched
  \/ \E s \in {S_Owner, S_Viewer} : HasTableAccess(s, DataTable)

SpecDefaults == InitDefaults /\ [][NextDefaults]_vars

\* The places in `last` of the calls of update() that returned.
Updated == {i \in DOMAIN last : last[i].op = "update" /\ last[i].throws = ""}

\* The rules of the '*:*' rule set of the rule metadata, if there is one.
UserDocRules ==
  LET doc == SelectSeq(aclRules.ruleSets, LAMBDA rs : rs.tableId = "*" /\ rs.colIds = Star)
  IN IF doc = <<>> THEN <<>> ELSE doc[1].body

\* What the built-in rules and the deny-all default give a role for a bit.
BuiltInVerdict(role, bit) ==
  IF role \in {"owners", "editors"} THEN "allow"
  ELSE IF role = "viewers" /\ bit = "read" THEN "allow"
  ELSE "deny"

LifecycleConfigs == {AclRules(<<T_RowOwn>>, <<>>), AclRules(<<>>, <<>>)}

InitLifecycle ==
  InitWith(LifecycleConfigs, {st \in OwnedStores : st[DataTable].rowIds = <<1>>})

NextLifecycle ==
  \/ EditRules(LifecycleConfigs)
  \/ UpdateStart
  \/ \E docActions \in Bundles(db, 1, "owner") : ApplyBundleOf(docActions, MaxLifecycle)
  \/ BeforeBroadcast
  \/ \E s \in {S_Owner, S_Editor} : FilterOutgoingDocActions(s, 2)
  \/ SnapshotsBuilt
  \/ AfterBroadcast

SpecLifecycle == InitLifecycle /\ [][NextLifecycle]_vars

\* A broadcast is under way: beforeBroadcast was called for the bundle and
\* afterBroadcast was not yet.
Broadcasting == bundle.active /\ bundle.announced

\* The snapshot builder of the bundle has been started.
BuilderRan == rowSnapshots # Nil /\ rowSnapshots.runs > 0

\* C29: the snapshot builder has run only if a broadcast is under way and a
\* pruning for a recipient of the bundle came to a record action on a table
\* whose read is mixed for it; outside a broadcast no row snapshots are
\* held; and the row snapshots a call of filterOutgoingDocActions was given
\* are those of the bundle it prunes.
C29_SnapshotLifecycle ==
  /\ BuilderRan =>
       /\ Broadcasting
       /\ \E s \in bundle.served : \E src \in DOMAIN bundle.applied : RowMixed(s, src)
  /\ ~Broadcasting => rowSnapshots = Nil
  /\ \A i \in FilterCalls :
       last[i].snapshots # <<>> =>
         last[i].snapshots = BuildRowSnapshots(db, bundle.applied, bundle.undo)

\* A call for the second bundle was given row snapshots, built once.
C29_Witness ==
  \E i \in FilterCalls :
    /\ bundle.count = 2
    /\ last[i].snapshots # <<>>
    /\ rowSnapshots.runs = 1

(***************************************************************************)
(* Properties of what filterData leaves of a table.                        *)
(***************************************************************************)
\* The places in `last` of the calls of filterData.
DataCalls == {i \in DOMAIN last : last[i].op = "filterData"}

\* No row left by call i of `last` has its read denied to the session.
NoDeniedRowLeft(i) ==
  \A id \in Range(last[i].result.rowIds) :
    RowRead(Store, last[i].docSession, last[i].data, id) # "deny"

\* No column left by call i of `last` has its read denied to the session.
NoDeniedColumnLeft(i) ==
  \A c \in DOMAIN last[i].result.colValues :
    getColumnAccess(Store, GetAccess(Store, permissionInfoMap, last[i].docSession),
                    last[i].data.tableId, c).read # "deny"

\* Every column left by call i of `last` has one value for each row left,
\* which is the value of the row in the data or the censored sentinel, and
\* is the sentinel if the read of the column for the row is not allowed.
CellsAligned(i) ==
  \A c \in DOMAIN last[i].result.colValues :
    /\ Len(last[i].result.colValues[c]) = Len(last[i].result.rowIds)
    /\ \A idx \in DOMAIN last[i].result.rowIds :
         /\ last[i].result.colValues[c][idx] \in
              {last[i].data.colValues[c][IndexOf(last[i].data.rowIds, last[i].result.rowIds[idx])],
               CENSORED}
         /\ ColumnRead(Store, last[i].docSession, last[i].data,
                       last[i].result.rowIds[idx], c) # "allow" =>
              last[i].result.colValues[c][idx] = CENSORED

\* C30: after filterData on a table fetched from the store, no row left has
\* its read denied to the session, no column left has its read denied to
\* it, every column left has one value for each row left, aligned with the
\* row ids, and every cell left whose read for its row is not allowed holds
\* the censored sentinel.
C30_FilterDataSound ==
  \A i \in DataCalls :
    /\ NoDeniedRowLeft(i)
    /\ NoDeniedColumnLeft(i)
    /\ CellsAligned(i)

(***************************************************************************)
(* The assertion of _filterRowsAndCells on the actions that _pruneRows     *)
(* derives.                                                                *)
(***************************************************************************)
\* The ids of the rows that the action returned at place k of call i of
\* `last` carries although their read on the after-snapshot of the action
\* of the bundle it derives from is denied to the session.
DeniedRowsLeft(i, k) ==
  {id \in Range(last[i].actions[k].action.rowIds) \cap
          Range(SnapshotAfter(last[i].actions[k].src).rowIds) :
     RowRead(Store, last[i].docSession, SnapshotAfter(last[i].actions[k].src), id) = "deny"}

\* C31: no call of filterOutgoingDocActions fails with 'Unexpected row
\* removal', and for a record action on a table whose read is mixed for the
\* session no action derived from it, other than a removal, carries a row
\* whose read on the after-snapshot is denied to the session.
C31_NoUnexpectedRowRemoval ==
  \A i \in FilterCalls :
    /\ last[i].throws # "Unexpected row removal"
    /\ \A k \in DOMAIN last[i].actions :
         (RowMixed(last[i].docSession, last[i].actions[k].src)
            /\ last[i].actions[k].action.name \notin RemoveActions) =>
           DeniedRowsLeft(i, k) = {}

(***************************************************************************)
(* The broadcast protocol with the rule metadata edited and loaded at any  *)
(* point of it: bundles are announced with beforeBroadcast before a        *)
(* recipient is served and closed with afterBroadcast after the last one.  *)
(***************************************************************************)
\* The document's rule metadata is edited, whether a broadcast is under way
\* or not; update() is due.
EditRulesAnytime(configs) ==
  /\ updating = Idle
  /\ calls = <<>>
  /\ aclRules' \in configs \ {aclRules}
  /\ updating' = Needed
  /\ last' = <<>>
  /\ UNCHANGED <<db, storeVars, callVars>>

InitProtocol ==
  InitWith(LifecycleConfigs, {st \in OwnedStores : st[DataTable].rowIds = <<1>>})

NextProtocol ==
  \/ EditRulesAnytime(LifecycleConfigs)
  \/ UpdateStart
  \/ \E docActions \in Bundles(db, 1, "owner") : ApplyBundleOf(docActions, MaxLifecycle)
  \/ BeforeBroadcast
  \/ \E s \in {S_Owner, S_Editor} : FilterOutgoingDocActions(s, 2)
  \/ SnapshotsBuilt
  \/ AfterBroadcast

SpecProtocol == InitProtocol /\ [][NextProtocol]_vars

\* The calls of `last` whose pruning came to a record action of the bundle
\* on a table whose read is mixed for the session.
SlowPathCalls ==
  {i \in FilterCalls : \E src \in DOMAIN bundle.applied : RowMixed(last[i].docSession, src)}

\* C32: under the broadcast protocol no call of filterOutgoingDocActions
\* fails with 'Actions not available', and a call whose pruning came to a
\* record action on a table whose read is mixed for the session found the
\* row snapshots armed, also when update() installed the first user rules
\* after beforeBroadcast.
C32_SnapshotsArmed ==
  /\ \A i \in FilterCalls : last[i].throws # "Actions not available"
  /\ SlowPathCalls # {} => rowSnapshots # Nil

(***************************************************************************)
(* The recipients of one bundle.                                           *)
(***************************************************************************)
\* What the calls of `last` return is what filterOutgoingDocActions gives
\* their sessions for the bundle when they are served alone.
SameAsServedAlone ==
  \A i \in FilterCalls :
    /\ last[i].throws = ServedAlone(last[i].docSession).throws
    /\ last[i].actions = ServedAlone(last[i].docSession).actions

\* C33: what filterOutgoingDocActions gives a session for the bundle is
\* what it gives the session when it is served alone, whichever recipients
\* were served before it and however their filterings interleave; and no
\* filtering changes the actions of the bundle or the row snapshots that the
\* recipients share.
C33_RecipientIndependence ==
  /\ SameAsServedAlone
  /\ bundle.active => bundle.docActions = bundle.applied
  /\ (rowSnapshots # Nil /\ rowSnapshots.state = "ready") =>
       rowSnapshots.value = BuildRowSnapshots(db, bundle.applied, bundle.undo)

====
